---- MODULE Spec2Model ----
(***************************************************************************)
(* Model of the shipshape ConfigMap reload controller:                     *)
(*   - the reconciliation engine (controller/src/controller.py),           *)
(*   - the Lease leader elector (controller/src/leader.py),                *)
(*   - the supervisor wiring both (controller/src/__main__.py).            *)
(*                                                                         *)
(* Python dicts are partial functions (DOMAIN = the keys present).  Time   *)
(* is a counter of whole seconds; time.monotonic(), the wall clock and the *)
(* second-resolution rollout timestamp all read it.  SHA-256 is taken to   *)
(* be injective: a digest is modelled by the canonical JSON text that is   *)
(* hashed.                                                                 *)
(***************************************************************************)
EXTENDS Integers, Sequences, FiniteSets, TLC

(***************************************************************************)
(* Bounds of the model                                                     *)
(***************************************************************************)
MaxTime == 2
MaxAttempt == 5

(***************************************************************************)
(* Dict helpers                                                            *)
(***************************************************************************)
EmptyMap == [x \in {} |-> 0]

Put(d, k, v) == [x \in (DOMAIN d) \cup {k} |-> IF x = k THEN v ELSE d[x]]

Pop(d, k) == [x \in (DOMAIN d) \ {k} |-> d[x]]

\* dict.get(k): the set holding the value, empty when the key is absent (None)
Get(d, k) == IF k \in DOMAIN d THEN {d[k]} ELSE {}

Min2(a, b) == IF a <= b THEN a ELSE b

Max2(a, b) == IF a >= b THEN a ELSE b

RECURSIVE Pow2(_)
Pow2(n) == IF n <= 0 THEN 1 ELSE 2 * Pow2(n - 1)

SetMin(S) == CHOOSE m \in S : \A y \in S : m <= y

(***************************************************************************)
(* Cluster objects and configuration                                       *)
(***************************************************************************)
\* APP_SELECTOR "app=helloworld" as parsed by _parse_selector
AppLabelFilters == [app |-> "helloworld"]

\* ROLLOUT_ANNOTATION_KEY
RolloutAnnotationKey == "shipshape.io/restartedAt"

\* DEBOUNCE_SECONDS values the engine is built with
DebounceChoices == {0, 2}

ConfigMapNames == {"a", "b"}

\* engine keys (env, configmap_name) the eligible inputs produce
Keys == {<<"test", n>> : n \in ConfigMapNames}

\* order in which dict iteration visits the keys
KeyOrder == << <<"test", "a">>, <<"test", "b">> >>

\* Deployments of the namespace
DeploymentNames == {"d1", "d2"}

\* ConfigMap data as the API client delivers it: None, or a dict whose
\* items are listed in insertion order; a value may be None
RawDatas ==
    { [isdict |-> FALSE, items |-> <<>>],
      [isdict |-> TRUE,  items |-> << [k |-> "MESSAGE", null |-> TRUE,  v |-> ""] >>],
      [isdict |-> TRUE,  items |-> << [k |-> "MESSAGE", null |-> FALSE, v |-> ""] >>],
      [isdict |-> TRUE,  items |-> << [k |-> "A", null |-> FALSE, v |-> "1"],
                                      [k |-> "MESSAGE", null |-> FALSE, v |-> "x"] >>],
      [isdict |-> TRUE,  items |-> << [k |-> "MESSAGE", null |-> FALSE, v |-> "x"],
                                      [k |-> "A", null |-> FALSE, v |-> "1"] >>] }

\* data keys in lexicographic order (json.dumps sort_keys=True)
DataKeyOrder == << "A", "MESSAGE" >>

\* ConfigMap objects an event or a list can carry
EligibleConfigMaps ==
    { [labels |-> [app |-> "helloworld", env |-> "test"], name |-> n, data |-> d] :
        n \in ConfigMapNames, d \in RawDatas }

IneligibleConfigMaps ==
    { [labels |-> [app |-> "other", env |-> "test"], name |-> "a",
       data |-> [isdict |-> FALSE, items |-> <<>>]],
      [labels |-> [app |-> "helloworld"], name |-> "a",
       data |-> [isdict |-> FALSE, items |-> <<>>]],
      [labels |-> [app |-> "helloworld", env |-> ""], name |-> "a",
       data |-> [isdict |-> FALSE, items |-> <<>>]],
      [labels |-> [app |-> "helloworld", env |-> "test"], name |-> "",
       data |-> [isdict |-> FALSE, items |-> <<>>]] }

ConfigMaps == EligibleConfigMaps \cup IneligibleConfigMaps

EventTypes == {"ADDED", "MODIFIED", "DELETED"}

\* every event a watch stream can deliver
Events == { [type |-> t, object |-> cm] : t \in EventTypes, cm \in ConfigMaps }

\* what the cluster API does to one executor call: the Deployment list
\* fails, or the patches of the Deployments in `patch` fail (the patch of
\* d2 always succeeds)
FailModes ==
    { [list |-> TRUE, patch |-> {}] } \cup
    { [list |-> FALSE, patch |-> S] : S \in SUBSET {"d1"} }

FailPlans == [Keys -> FailModes]

(***************************************************************************)
(* Content hasher                                                          *)
(***************************************************************************)
\* dict[str, str] with None values turned into ""
_normalize_data(raw) ==
    IF ~raw.isdict THEN EmptyMap
    ELSE [k \in {raw.items[i].k : i \in 1..Len(raw.items)} |->
            LET i == CHOOSE j \in 1..Len(raw.items) : raw.items[j].k = k
            IN  IF raw.items[i].null THEN "" ELSE raw.items[i].v]

RECURSIVE JsonItems(_, _, _)
JsonItems(data, i, first) ==
    IF i > Len(DataKeyOrder) THEN ""
    ELSE LET k == DataKeyOrder[i]
         IN  IF k \in DOMAIN data
             THEN (IF first THEN "" ELSE ",") \o "\"" \o k \o "\":\"" \o data[k] \o "\""
                  \o JsonItems(data, i + 1, FALSE)
             ELSE JsonItems(data, i + 1, first)

\* json.dumps(data, sort_keys=True, separators=(",", ":")); the digest is
\* identified with the text it is computed from
_hash_data(data) == "{" \o JsonItems(data, 1, TRUE) \o "}"

HashOf(cm) == _hash_data(_normalize_data(cm.data))

(***************************************************************************)
(* Selectors and annotation keys                                           *)
(***************************************************************************)
_matches_app_labels(labels) ==
    \A k \in DOMAIN AppLabelFilters :
        k \in DOMAIN labels /\ labels[k] = AppLabelFilters[k]

\* the app selector extended with env=<env>, as a label filter
_deployment_selector_for_env(env) ==
    IF "env" \in DOMAIN AppLabelFilters
    THEN AppLabelFilters
    ELSE [k \in (DOMAIN AppLabelFilters) \cup {"env"} |->
            IF k = "env" THEN env ELSE AppLabelFilters[k]]

list_namespaced_deployment(st, selector) ==
    { d \in DeploymentNames :
        \A k \in DOMAIN selector :
            /\ k \in DOMAIN st.deployment_labels[d]
            /\ st.deployment_labels[d][k] = selector[k] }

\* names used by the model need no slug rewriting and stay below 63 chars
_config_hash_annotation_key(config_map_name) ==
    "shipshape.io/config-hash-" \o config_map_name

(***************************************************************************)
(* Restart executor                                                        *)
(***************************************************************************)
\* pod-template annotations of a Deployment after a merge patch
MergeAnnotations(old, body) ==
    [k \in (DOMAIN old) \cup (DOMAIN body) |-> IF k \in DOMAIN body THEN body[k] ELSE old[k]]

\* the patch body without the caller's extra annotations
patch_deployment_restart_NoExtra(timestamp, extra_annotations) ==
    Put(EmptyMap, RolloutAnnotationKey, timestamp)

\* kube.patch_deployment_restart: {annotation_key: timestamp, **extra}
patch_deployment_restart(timestamp, extra_annotations) ==
    MergeAnnotations(Put(EmptyMap, RolloutAnnotationKey, timestamp), extra_annotations)

\* a check that never takes a Deployment for already updated
HasConfigHash_Never(st, d, hash_annotation_key, config_hash) == FALSE

\* the Deployment's pod template already carries config_hash: no patch
HasConfigHash(st, d, hash_annotation_key, config_hash) ==
    /\ config_hash # {}
    /\ Get(st.deployments[d], hash_annotation_key) = config_hash

\* st is the engine state; fm is what the cluster API does to this call.
\* Returns the RestartResult, the Deployments afterwards and the patches
\* that reached the API (name and body of each successful patch call).
_restart_deployments_for_env(st, env, config_map_name, timestamp, fm) ==
    IF fm.list
    THEN [result |-> [environment |-> env, matched_deployments |-> 0,
                      restarted |-> 0, failed |-> 1],
          deployments |-> st.deployments,
          patches |-> {}]
    ELSE
    LET items == list_namespaced_deployment(st, _deployment_selector_for_env(env))
        config_hash == Get(st.last_hash, <<env, config_map_name>>)
        hash_annotation_key == _config_hash_annotation_key(config_map_name)
        hash_annotations ==
            IF config_hash # {}
            THEN Put(EmptyMap, hash_annotation_key, CHOOSE h \in config_hash : TRUE)
            ELSE EmptyMap
        body == patch_deployment_restart(timestamp, hash_annotations)
        skipped == { d \in items : HasConfigHash(st, d, hash_annotation_key, config_hash) }
        attempted == items \ skipped
        patched == attempted \ fm.patch
    IN  [result |-> [environment |-> env,
                     matched_deployments |-> Cardinality(items),
                     restarted |-> Cardinality(patched),
                     failed |-> Cardinality(attempted \cap fm.patch)],
         deployments |-> [d \in DeploymentNames |->
                            IF d \in patched
                            THEN MergeAnnotations(st.deployments[d], body)
                            ELSE st.deployments[d]],
         patches |-> { [name |-> d, body |-> body] : d \in patched }]

(***************************************************************************)
(* Debounce and retry schedulers                                           *)
(***************************************************************************)
\* a debounce window that is never open
_debounce_remaining_Zero(st, key, now_monotonic) == 0

\* a debounce window that starts anew at every look
_debounce_remaining_Sliding(st, key, now_monotonic) ==
    IF st.debounce_seconds <= 0 THEN 0
    ELSE IF key \notin DOMAIN st.last_restart THEN 0
    ELSE st.debounce_seconds

_debounce_remaining(st, key, now_monotonic) ==
    IF st.debounce_seconds <= 0 THEN 0
    ELSE IF key \notin DOMAIN st.last_restart THEN 0
    ELSE Max2(0, st.debounce_seconds - (now_monotonic - st.last_restart[key]))

\* a deferral that overwrites the queued due time instead of keeping the later one
_schedule_pending_restart_Overwrite(st, key, now_monotonic, delay_seconds, reset_retry_attempt) ==
    LET st1 == [st EXCEPT !.pending = Put(st.pending, key, now_monotonic + delay_seconds)]
    IN  IF reset_retry_attempt
        THEN [st1 EXCEPT !.retry_attempt = Pop(st1.retry_attempt, key)]
        ELSE st1

\* a deferral that starts the whole debounce window again at every change
_schedule_pending_restart_Postpones(st, key, now_monotonic, delay_seconds, reset_retry_attempt) ==
    LET st1 == [st EXCEPT !.pending = Put(st.pending, key,
                                          now_monotonic + st.debounce_seconds)]
    IN  IF reset_retry_attempt
        THEN [st1 EXCEPT !.retry_attempt = Pop(st1.retry_attempt, key)]
        ELSE st1

_schedule_pending_restart(st, key, now_monotonic, delay_seconds, reset_retry_attempt) ==
    LET due_at == now_monotonic + delay_seconds
        st1 == IF key \notin DOMAIN st.pending \/ due_at > st.pending[key]
               THEN [st EXCEPT !.pending = Put(st.pending, key, due_at)]
               ELSE st
    IN  IF reset_retry_attempt
        THEN [st1 EXCEPT !.retry_attempt = Pop(st1.retry_attempt, key)]
        ELSE st1

\* a success that leaves the retry counter behind
_mark_restart_executed_KeepRetry(st, key, now_monotonic) ==
    [st EXCEPT !.last_restart = Put(st.last_restart, key, now_monotonic),
               !.pending = Pop(st.pending, key)]

_mark_restart_executed(st, key, now_monotonic) ==
    [st EXCEPT !.last_restart = Put(st.last_restart, key, now_monotonic),
               !.pending = Pop(st.pending, key),
               !.retry_attempt = Pop(st.retry_attempt, key)]

\* a retry backoff without the 30 second cap
_schedule_retry_Uncapped(st, key, now_monotonic) ==
    LET retry_attempt == (IF key \in DOMAIN st.retry_attempt
                          THEN st.retry_attempt[key] ELSE 0) + 1
    IN  [st EXCEPT !.retry_attempt = Put(st.retry_attempt, key, retry_attempt),
                   !.pending = Put(st.pending, key, now_monotonic + Pow2(retry_attempt - 1))]

_schedule_retry(st, key, now_monotonic) ==
    LET retry_attempt == (IF key \in DOMAIN st.retry_attempt
                          THEN st.retry_attempt[key] ELSE 0) + 1
        delay_seconds == Min2(30, Pow2(retry_attempt - 1))
    IN  [st EXCEPT !.retry_attempt = Put(st.retry_attempt, key, retry_attempt),
                   !.pending = Put(st.pending, key, now_monotonic + delay_seconds)]

\* One executor call and the queue bookkeeping that follows it.  `caller`
\* names the code path that makes the call; it is recorded with the call
\* in st.calls together with what the call saw and did.
_restart_and_record(st, key, now_monotonic, force, fm, caller) ==
    LET r == _restart_deployments_for_env(st, key[1], key[2], now_monotonic, fm)
        call == [key |-> key, caller |-> caller, at |-> now_monotonic, force |-> force,
                 prev_restart |-> Get(st.last_restart, key),
                 prev_attempt |-> Get(st.retry_attempt, key),
                 hash |-> Get(st.last_hash, key),
                 coalesced |-> key \in st.coalesced,
                 prev_in_run |-> key \in st.run_restarts,
                 raised |-> FALSE,
                 result |-> r.result, patches |-> r.patches]
        st1 == [st EXCEPT !.deployments = r.deployments,
                          !.calls = Append(st.calls, call)]
    IN  IF r.result.failed = 0 THEN _mark_restart_executed(st1, key, now_monotonic)
        ELSE IF force
        THEN [st1 EXCEPT !.pending = Pop(st1.pending, key),
                         !.retry_attempt = Pop(st1.retry_attempt, key)]
        ELSE _schedule_retry(st1, key, now_monotonic)

(***************************************************************************)
(* Drain and force-flush                                                   *)
(***************************************************************************)
RECURSIVE RunDue(_, _, _, _, _, _, _)
RunDue(st, due, i, now_monotonic, force, fp, caller) ==
    IF i > Len(KeyOrder) THEN st
    ELSE IF KeyOrder[i] \in due
    THEN RunDue(_restart_and_record(st, KeyOrder[i], now_monotonic, force,
                                    fp[KeyOrder[i]], caller),
                due, i + 1, now_monotonic, force, fp, caller)
    ELSE RunDue(st, due, i + 1, now_monotonic, force, fp, caller)

_drain_pending_restarts(st, now_monotonic, fp) ==
    LET due_restarts == { k \in DOMAIN st.pending : st.pending[k] <= now_monotonic }
    IN  RunDue(st, due_restarts, 1, now_monotonic, FALSE, fp, "drain")

\* One forced call of the flush.  When the call raises an unexpected
\* exception (taken to come from the Deployment list, before any patch),
\* the except clause drops the entry.
ForcedCall(st, key, now_monotonic, fm, raises) ==
    IF raises
    THEN [st EXCEPT !.pending = Pop(st.pending, key),
                    !.retry_attempt = Pop(st.retry_attempt, key),
                    !.calls = Append(st.calls,
                        [key |-> key, caller |-> "flush", at |-> now_monotonic,
                         force |-> TRUE,
                         prev_restart |-> Get(st.last_restart, key),
                         prev_attempt |-> Get(st.retry_attempt, key),
                         hash |-> Get(st.last_hash, key),
                         coalesced |-> key \in st.coalesced,
                         prev_in_run |-> key \in st.run_restarts,
                         raised |-> TRUE,
                         result |-> [environment |-> key[1], matched_deployments |-> 0,
                                     restarted |-> 0, failed |-> 1],
                         patches |-> {}])]
    ELSE _restart_and_record(st, key, now_monotonic, TRUE, fm, "flush")

\* the loop over list(self._pending_restarts.keys()), taken when the flush starts
RECURSIVE FlushKeys(_, _, _, _, _, _)
FlushKeys(st, keys, i, now_monotonic, fp, raising) ==
    IF i > Len(KeyOrder) THEN st
    ELSE IF KeyOrder[i] \in keys
    THEN FlushKeys(ForcedCall(st, KeyOrder[i], now_monotonic, fp[KeyOrder[i]],
                              KeyOrder[i] \in raising),
                   keys, i + 1, now_monotonic, fp, raising)
    ELSE FlushKeys(st, keys, i + 1, now_monotonic, fp, raising)

\* a flush that leaves out the restarts that are not due yet
_flush_pending_restarts_on_shutdown_DueOnly(st, now_monotonic, fp, raising) ==
    FlushKeys(st, { k \in DOMAIN st.pending : st.pending[k] <= now_monotonic }, 1,
              now_monotonic, fp, raising)

\* raising: the keys whose forced call raises an unexpected exception
_flush_pending_restarts_on_shutdown(st, now_monotonic, fp, raising) ==
    FlushKeys(st, DOMAIN st.pending, 1, now_monotonic, fp, raising)

\* The watch timeout is computed from clock readings that are not whole
\* seconds.  Where it is applied, readings and deadlines are counted in
\* ticks, TicksPerSecond of them to the second.
TicksPerSecond == 2

\* math.ceil(n / d) for d > 0
Ceil(n, d) == IF n <= 0 THEN -((-n) \div d) ELSE (n + d - 1) \div d

\* a timeout that rounds the remaining time down
_next_watch_timeout_seconds_Floor(st, now_monotonic) ==
    IF DOMAIN st.pending = {} THEN 30
    ELSE LET nearest_due == SetMin({ st.pending[k] : k \in DOMAIN st.pending })
             remaining == Max2(TicksPerSecond, nearest_due - now_monotonic)
         IN  Min2(30, Max2(1, remaining \div TicksPerSecond))

\* the watch timeout in whole seconds; pending deadlines and now in ticks
_next_watch_timeout_seconds(st, now_monotonic) ==
    IF DOMAIN st.pending = {} THEN 30
    ELSE LET nearest_due == SetMin({ st.pending[k] : k \in DOMAIN st.pending })
             remaining == Max2(TicksPerSecond, nearest_due - now_monotonic)
         IN  Min2(30, Max2(1, Ceil(remaining, TicksPerSecond)))

(***************************************************************************)
(* Event filter and hash comparison                                        *)
(***************************************************************************)
\* labels.get("env") and metadata.name are both present and non-empty
HasEnvAndName(cm) ==
    /\ "env" \in DOMAIN cm.labels
    /\ cm.labels["env"] # ""
    /\ cm.name # ""

Eligible(cm) == _matches_app_labels(cm.labels) /\ HasEnvAndName(cm)

KeyOf(cm) == <<cm.labels["env"], cm.name>>

\* a filter that takes every first sighting for a change, ADDED included
_has_meaningful_data_change_FirstSightCounts(st, key, event_type, config_map) ==
    LET current_hash == HashOf(config_map)
    IN  [st |-> [st EXCEPT !.last_hash = Put(st.last_hash, key, current_hash)],
         changed |-> Get(st.last_hash, key) # {current_hash}]

\* a filter that compares nothing: every eligible event but a first ADDED is a change
_has_meaningful_data_change_NoCompare(st, key, event_type, config_map) ==
    LET current_hash == HashOf(config_map)
    IN  [st |-> [st EXCEPT !.last_hash = Put(st.last_hash, key, current_hash)],
         changed |-> Get(st.last_hash, key) # {} \/ event_type # "ADDED"]

\* a filter that never takes an ADDED event for a change
_has_meaningful_data_change_AddedIgnored(st, key, event_type, config_map) ==
    LET current_hash == HashOf(config_map)
    IN  [st |-> [st EXCEPT !.last_hash = Put(st.last_hash, key, current_hash)],
         changed |-> event_type # "ADDED" /\ Get(st.last_hash, key) # {current_hash}]

\* updates last_hash[key] as a side effect and tells whether the event is
\* a real data change
_has_meaningful_data_change(st, key, event_type, config_map) ==
    LET current_hash == HashOf(config_map)
        previous_hash == Get(st.last_hash, key)
        st1 == [st EXCEPT !.last_hash = Put(st.last_hash, key, current_hash)]
    IN  [st |-> st1,
         changed |-> IF previous_hash = {} THEN event_type # "ADDED"
                     ELSE previous_hash # {current_hash}]

\* a handler that forgets the hash of a ConfigMap it is told was deleted
handle_configmap_event_DeletedForgets(st, event_type, config_map, now_monotonic, fm) ==
    IF event_type = "DELETED" /\ Eligible(config_map)
    THEN [st |-> [st EXCEPT !.last_hash = Pop(st.last_hash, KeyOf(config_map))],
          ret |-> {}]
    ELSE [st |-> st, ret |-> {}]

\* Returns the state afterwards and `ret`, the returned RestartResult
\* (empty when the handler returns None)
handle_configmap_event(st, event_type, config_map, now_monotonic, fm) ==
    IF event_type \notin {"ADDED", "MODIFIED"} THEN [st |-> st, ret |-> {}]
    ELSE IF ~_matches_app_labels(config_map.labels) THEN [st |-> st, ret |-> {}]
    ELSE IF ~HasEnvAndName(config_map) THEN [st |-> st, ret |-> {}]
    ELSE
    LET key == KeyOf(config_map)
        m == _has_meaningful_data_change(st, key, event_type, config_map)
        debounce_remaining == _debounce_remaining(m.st, key, now_monotonic)
    IN  IF ~m.changed THEN [st |-> m.st, ret |-> {}]
        ELSE IF debounce_remaining > 0
        THEN [st |-> _schedule_pending_restart(m.st, key, now_monotonic,
                                               debounce_remaining, TRUE),
              ret |-> {}]
        ELSE LET popped == [m.st EXCEPT !.pending = Pop(m.st.pending, key),
                                        !.retry_attempt = Pop(m.st.retry_attempt, key)]
                 done == _restart_and_record(popped, key, now_monotonic, FALSE, fm, "event")
             IN  [st |-> done, ret |-> {done.calls[Len(done.calls)].result}]

(***************************************************************************)
(* List sync and startup drift reconciler                                  *)
(***************************************************************************)
RECURSIVE SyncItems(_, _, _, _, _, _)
SyncItems(st, items, i, restart_on_change, now_monotonic, fp) ==
    IF i > Len(items) THEN st
    ELSE
    LET config_map == items[i]
        key == KeyOf(config_map)
        current_hash == HashOf(config_map)
        previous_hash == Get(st.last_hash, key)
        st1 == [st EXCEPT !.last_hash = Put(st.last_hash, key, current_hash)]
        debounce_remaining == _debounce_remaining(st1, key, now_monotonic)
        st2 == IF ~restart_on_change THEN st1
               ELSE IF previous_hash = {} \/ previous_hash = {current_hash} THEN st1
               ELSE IF debounce_remaining > 0
               THEN _schedule_pending_restart(st1, key, now_monotonic,
                                              debounce_remaining, TRUE)
               ELSE _restart_and_record(st1, key, now_monotonic, FALSE, fp[key], "relist")
    IN  IF ~Eligible(config_map)
        THEN SyncItems(st, items, i + 1, restart_on_change, now_monotonic, fp)
        ELSE SyncItems(st2, items, i + 1, restart_on_change, now_monotonic, fp)

\* a list sync that only seeds the cache, whatever restart_on_change says
_sync_cache_from_list_SeedOnly(st, config_maps, restart_on_change, now_monotonic, fp) ==
    SyncItems(st, config_maps, 1, FALSE, now_monotonic, fp)

_sync_cache_from_list(st, config_maps, restart_on_change, now_monotonic, fp) ==
    SyncItems(st, config_maps, 1, restart_on_change, now_monotonic, fp)

\* a drift check that marks only Deployments whose hash annotation differs
StaleDeployments_HashOnly(st, key) ==
    LET hash_annotation_key == _config_hash_annotation_key(key[2])
    IN  { d \in list_namespaced_deployment(st, _deployment_selector_for_env(key[1])) :
            LET observed_hash == Get(st.deployments[d], hash_annotation_key)
            IN  observed_hash # {} /\ observed_hash # Get(st.last_hash, key) }

\* Deployments of env the drift check marks for reconciliation
StaleDeployments(st, key) ==
    LET hash_annotation_key == _config_hash_annotation_key(key[2])
    IN  { d \in list_namespaced_deployment(st, _deployment_selector_for_env(key[1])) :
            LET observed_hash == Get(st.deployments[d], hash_annotation_key)
            IN  IF observed_hash = {}
                THEN RolloutAnnotationKey \in DOMAIN st.deployments[d]
                ELSE observed_hash # Get(st.last_hash, key) }

\* drift_fail: the keys whose drift-check Deployment list fails
RECURSIVE DriftItems(_, _, _, _, _, _)
DriftItems(st, items, i, now_monotonic, fp, drift_fail) ==
    IF i > Len(items) THEN st
    ELSE
    LET config_map == items[i]
        key == KeyOf(config_map)
    IN  IF ~Eligible(config_map)
        THEN DriftItems(st, items, i + 1, now_monotonic, fp, drift_fail)
        ELSE IF key \notin DOMAIN st.last_hash
        THEN DriftItems(st, items, i + 1, now_monotonic, fp, drift_fail)
        ELSE IF key \in drift_fail
        THEN DriftItems(st, items, i + 1, now_monotonic, fp, drift_fail)
        ELSE IF StaleDeployments(st, key) = {}
        THEN DriftItems(st, items, i + 1, now_monotonic, fp, drift_fail)
        ELSE DriftItems(_restart_and_record(st, key, now_monotonic, FALSE, fp[key], "drift"),
                        items, i + 1, now_monotonic, fp, drift_fail)

_reconcile_startup_drift(st, config_maps, now_monotonic, fp, drift_fail) ==
    DriftItems(st, config_maps, 1, now_monotonic, fp, drift_fail)

(***************************************************************************)
(* State                                                                   *)
(***************************************************************************)
VARIABLES
    now,               \* the clock, in seconds
    debounce_seconds,  \* ConfigMapReloader.debounce_seconds
    last_hash,         \* _last_data_hash
    last_restart,      \* _last_restart
    pending,           \* _pending_restarts
    retry_attempt,     \* _pending_retry_attempts
    deployments,       \* pod-template annotations of every Deployment
    deployment_labels, \* labels of every Deployment
    ready,             \* ConfigMapReloader.ready
    external_stop,     \* ConfigMapReloader._external_stop
    stop_event,        \* the shutdown_event handed to run_forever
    phase,             \* where run_forever is: idle, init, watch, stream
    resource_version,  \* run_forever's resource_version: empty (None) or one version
    watch_resource_version, \* the resource_version the open watch stream was started from
    backoff_seconds,   \* run_forever's backoff_seconds, the base of the watch loop's error backoff
    startup_backoff_seconds, \* run_forever's startup_backoff_seconds, the base of the initial list's
    seen_version,      \* history: the last non-empty resource version a list or an event of this run carried
    _active_watcher,   \* WatchController._active_watcher: none, or the number of a Watch object
    watcher,           \* run_forever's watcher: the number of the Watch object it made last
    stopped_watchers,  \* the Watch objects request_stop has called stop() on
    request_stop_pc,   \* where the thread that calls request_stop() is
    active_watcher,    \* request_stop's active_watcher
    out,               \* history: the event the last step handled, and the result
    coalesced,         \* history: the pending keys that saw a further change since queued
    run_restarts       \* history: the keys restarted successfully in the current run

VARIABLES
    timing,            \* the elector's lease_duration, renew_deadline and retry_period
    join_timeout,      \* controller_stop_join_timeout_seconds
    lease,             \* the Lease object: empty, or its spec
    pc,                \* where each replica's main thread is
    _is_leader,        \* LeaseLeaderElector._is_leader
    last_renew_success,\* run()'s last_renew_success
    wake_at,           \* when the elector's wait of retry_period ends
    join_deadline,     \* when on_stopped_leading's join gives up
    shutdown_event,    \* the process's shutdown_event
    controller_thread, \* the supervisor's controller_thread: none, alive, dead
    controller_stop,   \* the stop signal on_stopped_leading sends the engine
    leading,           \* history: on_started_leading invoked, on_stopped_leading not since
    out_of_turn,       \* history: elector.run() invoked a callback out of turn
    superseded,        \* history: another replica started its engine while this one's ran
    leader_ready,      \* the leader_ready event the health server reads
    engine_threads,    \* history: how many engine threads execute _run_controller
    stale_calls        \* history: the replicas whose engine called the API while superseded

leader_vars == << timing, join_timeout, lease, pc, _is_leader, last_renew_success, wake_at,
                  join_deadline, shutdown_event, controller_thread, controller_stop,
                  leading, out_of_turn, superseded, leader_ready, engine_threads, stale_calls >>

engine_vars == << now, debounce_seconds, last_hash, last_restart, pending, retry_attempt,
                  deployments, deployment_labels, ready, external_stop, stop_event,
                  phase, resource_version, watch_resource_version, out, coalesced,
                  run_restarts, backoff_seconds, startup_backoff_seconds,
                  seen_version, _active_watcher, watcher, stopped_watchers,
                  request_stop_pc, active_watcher >>

backoff_vars == << backoff_seconds, startup_backoff_seconds >>

stop_vars == << _active_watcher, watcher, stopped_watchers, request_stop_pc, active_watcher >>

\* no Watch object made yet, request_stop() not called
StopIdle ==
    /\ _active_watcher = {}
    /\ watcher = 0
    /\ stopped_watchers = {}
    /\ request_stop_pc = "idle"
    /\ active_watcher = {}

\* a backoff that doubles without a cap
DoubledBackoff_Uncapped(backoff) == backoff * 2

\* min(backoff_seconds * 2, 30), the base of the next error's sleep
DoubledBackoff(backoff) == IF backoff * 2 < 30 THEN backoff * 2 ELSE 30

\* the engine state the operators above work on; calls collects the
\* executor calls of one step
EngineState ==
    [debounce_seconds |-> debounce_seconds, last_hash |-> last_hash,
     last_restart |-> last_restart, pending |-> pending,
     retry_attempt |-> retry_attempt, deployments |-> deployments,
     deployment_labels |-> deployment_labels,
     resource_version |-> resource_version,
     watch_resource_version |-> watch_resource_version,
     coalesced |-> coalesced, run_restarts |-> run_restarts, calls |-> <<>>]

\* the last step handled no event
NoEvent == [event_type |-> "", key |-> {}, prev_hash |-> {}, hash |-> {}, ret |-> {}]

Called(st, k) == \E i \in 1..Len(st.calls) : st.calls[i].key = k

Commit(st) ==
    /\ last_hash' = st.last_hash
    /\ last_restart' = st.last_restart
    /\ pending' = st.pending
    /\ retry_attempt' = st.retry_attempt
    /\ deployments' = st.deployments
    /\ resource_version' = st.resource_version
    /\ watch_resource_version' = st.watch_resource_version
    /\ coalesced' =
         { k \in DOMAIN st.pending :
             /\ ~Called(st, k)
             /\ k \in DOMAIN pending
             /\ k \in coalesced \/ st.last_hash[k] # last_hash[k] }
    /\ run_restarts' =
         run_restarts \cup
         { st.calls[i].key : i \in { j \in 1..Len(st.calls) : st.calls[j].result.failed = 0 } }
    /\ UNCHANGED << debounce_seconds, deployment_labels >>

_should_stop == stop_event \/ external_stop

NoFail == [list |-> FALSE, patch |-> {}]

\* the cluster API answers every call
NoFailPlan == [k \in Keys |-> NoFail]

\* the failure plans that differ on the keys of S only
PlansFor(S) == { fp \in FailPlans : \A k \in Keys \ S : fp[k] = NoFail }

AttemptsBelowBound == \A k \in DOMAIN retry_attempt : retry_attempt[k] < MaxAttempt

\* results of list_namespaced_config_map: each name absent or present, with
\* one of two data payloads (a null value; two keys out of sorted order)
ListDatas ==
    { [isdict |-> TRUE,  items |-> << [k |-> "MESSAGE", null |-> TRUE,  v |-> ""] >>],
      [isdict |-> TRUE,  items |-> << [k |-> "A", null |-> FALSE, v |-> "1"],
                                      [k |-> "MESSAGE", null |-> FALSE, v |-> "x"] >>] }

ListItem(n, d) == [labels |-> [app |-> "helloworld", env |-> "test"], name |-> n, data |-> d]

ListResults ==
    { <<>> } \cup
    { << ListItem("a", d) >> : d \in ListDatas } \cup
    { << ListItem("b", d) >> : d \in ListDatas } \cup
    { << ListItem("a", d), ListItem("b", e) >> : d \in ListDatas, e \in ListDatas } \cup
    { << [labels |-> [app |-> "helloworld"], name |-> "a",
          data |-> [isdict |-> FALSE, items |-> <<>>]], ListItem(n, d) >> :
        n \in ConfigMapNames, d \in ListDatas }

ListedKeys(items) == { KeyOf(items[i]) : i \in { j \in 1..Len(items) : Eligible(items[j]) } }

EventKey(e) == IF Eligible(e.object) THEN {KeyOf(e.object)} ELSE {}

(***************************************************************************)
(* What each step of run_forever can do from the current state: the set of *)
(* engine states it can end in, over the inputs and the API's failures.    *)
(* Empty where run_forever is not at that step.                            *)
(***************************************************************************)
\* initial list, cache seeding and drift reconciliation; the list response
\* carries one of `versions` as its metadata.resource_version
InitialListOutcomes(lists, versions) ==
    IF phase = "init" /\ ~_should_stop
    THEN UNION { { [_reconcile_startup_drift(
                        _sync_cache_from_list(EngineState, items, FALSE, now, fp),
                        items, now, fp, drift_fail)
                      EXCEPT !.resource_version = v] :
                   fp \in PlansFor(ListedKeys(items)),
                   drift_fail \in SUBSET ListedKeys(items),
                   v \in versions } : items \in lists }
    ELSE {}

\* the drain at the top of the watch loop, then the stream is opened from
\* resource_version
WatchOpenOutcomes ==
    IF phase = "watch" /\ ~_should_stop
    THEN { [_drain_pending_restarts(EngineState, now, fp)
              EXCEPT !.watch_resource_version = resource_version] :
             fp \in PlansFor(DOMAIN pending) }
    ELSE {}

\* handle_configmap_event on one event of the stream: the event, the
\* resource version its object carries (empty: none), the handler's state
\* and return value, and the failure plan of the step
HandlerOutcomes(events, versions) ==
    IF phase = "stream" /\ ~_should_stop
    THEN UNION { { [event |-> e, version |-> v, fp |-> fp,
                    h |-> handle_configmap_event(
                              EngineState, e.type, e.object, now,
                              fp[CHOOSE k \in Keys : (EventKey(e) # {} => k \in EventKey(e))])] :
                   fp \in PlansFor((DOMAIN pending) \cup EventKey(e)),
                   v \in versions } : e \in events }
    ELSE {}

\* an engine that takes the resource version of every event, empty or not
AfterEvent_TakesEmpty(o) ==
    [_drain_pending_restarts(o.h.st, now, o.fp) EXCEPT !.resource_version = o.version]

\* the event's resource version is remembered, and the drain follows the handler
AfterEvent(o) ==
    [_drain_pending_restarts(o.h.st, now, o.fp)
       EXCEPT !.resource_version = IF o.version = {} THEN @ ELSE o.version]

\* the drain after the stream has ended
WatchEndOutcomes ==
    IF phase = "stream"
    THEN { [_drain_pending_restarts(EngineState, now, fp)
              EXCEPT !.watch_resource_version = {}] :
             fp \in PlansFor(DOMAIN pending) }
    ELSE {}

\* the re-list after 410 of the list response `items` with version v
Relist(items, v, fp) ==
    [_sync_cache_from_list(EngineState, items, TRUE, now, fp)
       EXCEPT !.resource_version = v, !.watch_resource_version = {}]

RelistOutcomes(lists, versions) ==
    IF phase = "stream"
    THEN UNION { { Relist(items, v, fp) :
                   fp \in PlansFor(ListedKeys(items)), v \in versions } : items \in lists }
    ELSE {}

\* the force-flush on the way out; the forced calls of the keys in
\* `raising` raise an unexpected exception
Flush(fp, raising) ==
    [_flush_pending_restarts_on_shutdown(EngineState, now, fp, raising)
       EXCEPT !.resource_version = {}]

FlushOutcomes(raisings) ==
    IF phase = "watch" /\ _should_stop
    THEN { Flush(fp, raising) : fp \in PlansFor(DOMAIN pending), raising \in raisings }
    ELSE {}

\* the flush when no call raises
ShutdownOutcomes == FlushOutcomes({ {} })

(***************************************************************************)
(* run_forever, one action per step of the engine thread                   *)
(***************************************************************************)
Unchanged(st) ==
    UNCHANGED << debounce_seconds, last_hash, last_restart, pending, retry_attempt,
                 deployments, deployment_labels, coalesced >>

Calls(st) == { st.calls[i] : i \in 1..Len(st.calls) }

\* run_forever is entered: the per-run stop flag is fresh, _external_stop
\* is cleared; the dicts keep what an earlier run left in them
RunForever ==
    /\ phase = "idle"
    /\ phase' = "init"
    /\ external_stop' = FALSE
    /\ stop_event' = FALSE
    /\ out' = NoEvent
    /\ UNCHANGED leader_vars
    /\ UNCHANGED stop_vars
    /\ seen_version' = {}
    /\ startup_backoff_seconds' = 1
    /\ UNCHANGED backoff_seconds
    /\ run_restarts' = {}
    /\ Unchanged(EngineState)
    /\ resource_version' = {}
    /\ UNCHANGED << now, ready, watch_resource_version >>

\* initial list succeeds: seed the cache, reconcile drift, set ready
InitialListOkIn(lists, versions) ==
    /\ AttemptsBelowBound
    /\ \E st \in InitialListOutcomes(lists, versions) :
          /\ Commit(st)
          /\ seen_version' = IF st.resource_version = {} THEN seen_version
                              ELSE st.resource_version
    /\ ready' = TRUE
    /\ phase' = "watch"
    /\ out' = NoEvent
    /\ UNCHANGED leader_vars
    /\ UNCHANGED stop_vars
    /\ backoff_seconds' = 1
    /\ UNCHANGED startup_backoff_seconds
    /\ UNCHANGED << now, external_stop, stop_event >>

\* initial list answers 401/403: clear ready and return
InitialListDenied ==
    /\ phase = "init"
    /\ ~_should_stop
    /\ ready' = FALSE
    /\ phase' = "idle"
    /\ out' = NoEvent
    /\ UNCHANGED leader_vars
    /\ UNCHANGED stop_vars
    /\ UNCHANGED seen_version
    /\ UNCHANGED backoff_vars
    /\ Unchanged(EngineState)
    /\ UNCHANGED << run_restarts, resource_version, watch_resource_version >>
    /\ UNCHANGED << now, external_stop, stop_event >>

\* stop requested before the initial list succeeded: return without flush
InitialStopped ==
    /\ phase = "init"
    /\ _should_stop
    /\ ready' = FALSE
    /\ phase' = "idle"
    /\ out' = NoEvent
    /\ UNCHANGED leader_vars
    /\ UNCHANGED stop_vars
    /\ UNCHANGED seen_version
    /\ UNCHANGED backoff_vars
    /\ Unchanged(EngineState)
    /\ UNCHANGED << run_restarts, resource_version, watch_resource_version >>
    /\ UNCHANGED << now, external_stop, stop_event >>

\* top of the watch loop: drain what is due, then open a watch stream
WatchOpen ==
    /\ \E st \in WatchOpenOutcomes : Commit(st)
    /\ phase' = "stream"
    /\ out' = NoEvent
    /\ UNCHANGED leader_vars
    /\ UNCHANGED stop_vars
    /\ UNCHANGED seen_version
    /\ UNCHANGED backoff_vars
    /\ UNCHANGED << now, ready, external_stop, stop_event >>

\* one event of the stream: handle it, then drain
WatchEventIn(events, versions) ==
    /\ \E o \in HandlerOutcomes(events, versions) :
          /\ Commit(AfterEvent(o))
          /\ seen_version' = IF o.version = {} THEN seen_version ELSE o.version
          /\ out' = [event_type |-> o.event.type, key |-> EventKey(o.event),
                     prev_hash |-> IF EventKey(o.event) = {} THEN {}
                                   ELSE Get(last_hash, KeyOf(o.event.object)),
                     hash |-> IF EventKey(o.event) = {} THEN {}
                              ELSE {HashOf(o.event.object)},
                     ret |-> o.h.ret]
    /\ UNCHANGED << now, ready, external_stop, stop_event, phase >>
    /\ UNCHANGED leader_vars
    /\ UNCHANGED stop_vars
    /\ UNCHANGED backoff_vars

\* the stream ends (timeout, or stop requested): drain, back to the top
WatchEnd ==
    /\ \E st \in WatchEndOutcomes : Commit(st)
    /\ phase' = "watch"
    /\ out' = NoEvent
    /\ UNCHANGED leader_vars
    /\ UNCHANGED stop_vars
    /\ UNCHANGED seen_version
    /\ backoff_seconds' = 1
    /\ UNCHANGED startup_backoff_seconds
    /\ UNCHANGED << now, ready, external_stop, stop_event >>

\* the watch raises 410 and the re-list succeeds: sync with restart-on-change
WatchGoneRelistOkIn(lists, versions) ==
    /\ AttemptsBelowBound
    /\ \E st \in RelistOutcomes(lists, versions) :
          /\ Commit(st)
          /\ seen_version' = IF st.resource_version = {} THEN seen_version
                              ELSE st.resource_version
    /\ phase' = "watch"
    /\ out' = NoEvent
    /\ UNCHANGED leader_vars
    /\ UNCHANGED stop_vars
    /\ UNCHANGED backoff_vars
    /\ UNCHANGED << now, ready, external_stop, stop_event >>

\* the watch raises 410 and the re-list fails (not 401/403): the resource
\* version is forgotten, back to the top
WatchGoneRelistFails ==
    /\ phase = "stream"
    /\ phase' = "watch"
    /\ out' = NoEvent
    /\ resource_version' = {}
    /\ watch_resource_version' = {}
    /\ UNCHANGED leader_vars
    /\ UNCHANGED stop_vars
    /\ UNCHANGED seen_version
    /\ UNCHANGED backoff_vars
    /\ Unchanged(EngineState)
    /\ UNCHANGED run_restarts
    /\ UNCHANGED << now, ready, external_stop, stop_event >>

\* any other watch error: sleep the backoff, back to the top
WatchError ==
    /\ phase = "stream"
    /\ phase' = "watch"
    /\ out' = NoEvent
    /\ watch_resource_version' = {}
    /\ UNCHANGED resource_version
    /\ UNCHANGED leader_vars
    /\ UNCHANGED stop_vars
    /\ UNCHANGED seen_version
    /\ UNCHANGED backoff_vars
    /\ Unchanged(EngineState)
    /\ UNCHANGED run_restarts
    /\ UNCHANGED << now, ready, external_stop, stop_event >>

\* 401/403 from the watch, or from the re-list after 410: clear ready, return
WatchDenied ==
    /\ phase = "stream"
    /\ ready' = FALSE
    /\ phase' = "idle"
    /\ out' = NoEvent
    /\ UNCHANGED leader_vars
    /\ UNCHANGED stop_vars
    /\ UNCHANGED seen_version
    /\ UNCHANGED backoff_vars
    /\ Unchanged(EngineState)
    /\ resource_version' = {}
    /\ watch_resource_version' = {}
    /\ UNCHANGED run_restarts
    /\ UNCHANGED << now, external_stop, stop_event >>

\* the loop sees the stop signal: force-flush, clear ready, return
ShutdownIn(raisings) ==
    /\ \E st \in FlushOutcomes(raisings) : Commit(st)
    /\ ready' = FALSE
    /\ phase' = "idle"
    /\ out' = NoEvent
    /\ UNCHANGED leader_vars
    /\ UNCHANGED stop_vars
    /\ UNCHANGED seen_version
    /\ UNCHANGED backoff_vars
    /\ UNCHANGED << now, external_stop, stop_event >>

Shutdown == ShutdownIn({ {} })

\* request_stop() from the supervisor thread, while the engine runs
RequestStop ==
    /\ phase # "idle"
    /\ ~external_stop
    /\ external_stop' = TRUE
    /\ out' = NoEvent
    /\ UNCHANGED leader_vars
    /\ UNCHANGED stop_vars
    /\ UNCHANGED seen_version
    /\ UNCHANGED backoff_vars
    /\ Unchanged(EngineState)
    /\ UNCHANGED << run_restarts, resource_version, watch_resource_version >>
    /\ UNCHANGED << now, ready, stop_event, phase >>

\* the supervisor sets the stop flag it handed to run_forever
SetStopEvent ==
    /\ phase # "idle"
    /\ ~stop_event
    /\ stop_event' = TRUE
    /\ out' = NoEvent
    /\ UNCHANGED leader_vars
    /\ UNCHANGED stop_vars
    /\ UNCHANGED seen_version
    /\ UNCHANGED backoff_vars
    /\ Unchanged(EngineState)
    /\ UNCHANGED << run_restarts, resource_version, watch_resource_version >>
    /\ UNCHANGED << now, ready, external_stop, phase >>

\* a second passes
Tick ==
    /\ now < MaxTime
    /\ now' = now + 1
    /\ out' = NoEvent
    /\ UNCHANGED leader_vars
    /\ UNCHANGED stop_vars
    /\ UNCHANGED seen_version
    /\ UNCHANGED backoff_vars
    /\ Unchanged(EngineState)
    /\ UNCHANGED << run_restarts, resource_version, watch_resource_version >>
    /\ UNCHANGED << ready, external_stop, stop_event, phase >>

\* The inputs of the engine specification: the cluster holds ConfigMap "a"
EngineEvents ==
    { e \in Events :
        \/ /\ e.type \in {"ADDED", "MODIFIED"} /\ Eligible(e.object)
           /\ e.object.name = "a" /\ e.object.data \in ListDatas
        \/ e.type = "MODIFIED" /\ ~Eligible(e.object)
        \/ /\ e.type = "DELETED" /\ Eligible(e.object) /\ e.object.name = "a"
           /\ ~e.object.data.isdict }

EngineLists ==
    { items \in ListResults : \A i \in 1..Len(items) : items[i].name = "a" }

\* every list response and every event object of the engine specification
\* carries the same resource version
EngineVersions == { {"1"} }

InitialListOk == InitialListOkIn(EngineLists, EngineVersions)

WatchEvent == WatchEventIn(EngineEvents, EngineVersions)

WatchGoneRelistOk == WatchGoneRelistOkIn(EngineLists, EngineVersions)

\* the replicas of the controller
Replicas == {"r1", "r2"}

\* no elector runs
LeaderIdle ==
    /\ timing = [lease_duration_seconds |-> 15, renew_deadline_seconds |-> 10,
                 retry_period_seconds |-> 2]
    /\ join_timeout = 45
    /\ lease = {}
    /\ pc = [r \in Replicas |-> "main"]
    /\ _is_leader = [r \in Replicas |-> FALSE]
    /\ last_renew_success = [r \in Replicas |-> 0]
    /\ wake_at = [r \in Replicas |-> 0]
    /\ join_deadline = [r \in Replicas |-> 0]
    /\ shutdown_event = [r \in Replicas |-> FALSE]
    /\ controller_thread = [r \in Replicas |-> "none"]
    /\ controller_stop = [r \in Replicas |-> FALSE]
    /\ leading = [r \in Replicas |-> FALSE]
    /\ out_of_turn = [r \in Replicas |-> FALSE]
    /\ superseded = [r \in Replicas |-> FALSE]
    /\ leader_ready = [r \in Replicas |-> FALSE]
    /\ engine_threads = [r \in Replicas |-> 0]
    /\ stale_calls = {}

InitEngine ==
    /\ LeaderIdle
    /\ now = 0
    /\ debounce_seconds \in DebounceChoices
    /\ last_hash = EmptyMap
    /\ last_restart = EmptyMap
    /\ pending = EmptyMap
    /\ retry_attempt = EmptyMap
    /\ deployments = [d \in DeploymentNames |-> EmptyMap]
    /\ deployment_labels =
         [d \in DeploymentNames |->
            [app |-> "helloworld", env |-> IF d = "d1" THEN "test" ELSE "prod"]]
    /\ ready = FALSE
    /\ external_stop = FALSE
    /\ stop_event = FALSE
    /\ phase = "idle"
    /\ resource_version = {}
    /\ watch_resource_version = {}
    /\ backoff_seconds = 1
    /\ startup_backoff_seconds = 1
    /\ seen_version = {}
    /\ StopIdle
    /\ out = NoEvent
    /\ coalesced = {}
    /\ run_restarts = {}

NextEngine ==
    \/ RunForever
    \/ InitialListOk
    \/ InitialListDenied
    \/ InitialStopped
    \/ WatchOpen
    \/ WatchEvent
    \/ WatchEnd
    \/ WatchGoneRelistOk
    \/ WatchError
    \/ WatchDenied
    \/ Shutdown
    \/ RequestStop
    \/ SetStopEvent
    \/ Tick

SpecEngine == InitEngine /\ [][NextEngine]_<< engine_vars, leader_vars >>

TypeOK == phase \in {"idle", "init", "watch", "stream"}

(***************************************************************************)
(* The engine against a cluster that holds two ConfigMaps, "a" and "b", of *)
(* one env and two Deployments that env's selector matches.  The           *)
(* Deployments may have been restarted before the controller starts: by an *)
(* older controller that wrote no hash annotation, or by this one.         *)
(***************************************************************************)
\* pod-template annotations a Deployment can carry when the controller starts
InitialAnnotations ==
    { EmptyMap,
      Put(EmptyMap, RolloutAnnotationKey, 0),
      Put(Put(EmptyMap, RolloutAnnotationKey, 0), _config_hash_annotation_key("a"),
          _hash_data(_normalize_data(
              [isdict |-> TRUE,
               items |-> << [k |-> "MESSAGE", null |-> TRUE, v |-> ""] >>]))) }

\* list responses: "a" alone, or "a" and "b"; the data of "b" never changes
ClusterLists ==
    { << ListItem("a", d) >> : d \in ListDatas } \cup
    { << ListItem("a", d), ListItem("b", [isdict |-> FALSE, items |-> <<>>]) >> :
        d \in ListDatas }

\* resource version of the initial list response, and of a re-list response
InitialVersions == { {"1"} }

RelistVersions == { {"2"} }

\* events of the stream: changes of "a"
ClusterEvents ==
    { e \in Events :
        /\ e.type = "MODIFIED"
        /\ Eligible(e.object)
        /\ e.object.name = "a"
        /\ e.object.data \in ListDatas }

\* resource version of the event objects
EventVersions == { {"1"} }

\* which forced calls of a flush raise
Raisings == SUBSET Keys

InitCluster ==
    /\ LeaderIdle
    /\ now = 0
    /\ debounce_seconds = 2
    /\ last_hash = EmptyMap
    /\ last_restart = EmptyMap
    /\ pending = EmptyMap
    /\ retry_attempt = EmptyMap
    /\ deployments \in [DeploymentNames -> InitialAnnotations]
    /\ deployments["d2"] # Put(EmptyMap, RolloutAnnotationKey, 0)
    /\ deployment_labels =
         [d \in DeploymentNames |-> [app |-> "helloworld", env |-> "test"]]
    /\ ready = FALSE
    /\ external_stop = FALSE
    /\ stop_event = FALSE
    /\ phase = "idle"
    /\ resource_version = {}
    /\ watch_resource_version = {}
    /\ backoff_seconds = 1
    /\ startup_backoff_seconds = 1
    /\ seen_version = {}
    /\ StopIdle
    /\ out = NoEvent
    /\ coalesced = {}
    /\ run_restarts = {}

\* a freshly built controller is started, once
ClusterRunForever == last_hash = EmptyMap /\ RunForever

ClusterInitialListOk == InitialListOkIn(ClusterLists, InitialVersions)

\* the cluster specification follows the loop up to the first failed
\* restart and then lets the stream end; the retries that follow are the
\* engine specification's
NoRetryQueued == retry_attempt = EmptyMap

ClusterWatchOpen == NoRetryQueued /\ WatchOpen

ClusterWatchEvent == NoRetryQueued /\ WatchEventIn(ClusterEvents, EventVersions)

\* events the handler filters out: a type other than ADDED and MODIFIED,
\* labels that miss the app selector, no env label or an empty one, an
\* empty name
FilteredEvents ==
    { e \in Events :
        \/ ~Eligible(e.object)
        \/ e.type = "DELETED" /\ e.object.name = "a" /\ e.object.data \in ListDatas }

ClusterFilteredEvent == NoRetryQueued /\ WatchEventIn(FilteredEvents, EventVersions)

ClusterRelistOk == NoRetryQueued /\ WatchGoneRelistOkIn(ClusterLists, RelistVersions)

ClusterShutdown == ShutdownIn(Raisings)

NextCluster ==
    \/ ClusterRunForever
    \/ ClusterInitialListOk
    \/ ClusterWatchOpen
    \/ ClusterWatchEvent
    \/ ClusterFilteredEvent
    \/ WatchEnd
    \/ ClusterRelistOk
    \/ WatchGoneRelistFails
    \/ ClusterShutdown
    \/ RequestStop
    \/ Tick

SpecCluster == InitCluster /\ [][NextCluster]_<< engine_vars, leader_vars >>

(***************************************************************************)
(* Leader election and the supervisor around the engine                    *)
(***************************************************************************)
MaxLeaderTime == 6

\* LeaseLeaderElector.__init__: the timing parameters it accepts
ValidTimings(lease_duration_seconds, renew_deadline_seconds, retry_period_seconds) ==
    /\ ~(lease_duration_seconds < 1)
    /\ ~(renew_deadline_seconds < 1)
    /\ ~(retry_period_seconds < 0)
    /\ ~(renew_deadline_seconds >= lease_duration_seconds)
    /\ ~(retry_period_seconds >= renew_deadline_seconds)

\* timing parameters handed to the constructor; the last one it rejects
TimingChoices ==
    { [lease_duration_seconds |-> 3, renew_deadline_seconds |-> 2, retry_period_seconds |-> 1],
      [lease_duration_seconds |-> 5, renew_deadline_seconds |-> 4, retry_period_seconds |-> 3],
      [lease_duration_seconds |-> 3, renew_deadline_seconds |-> 3, retry_period_seconds |-> 1] }

AcceptedTimings ==
    { t \in TimingChoices :
        ValidTimings(t.lease_duration_seconds, t.renew_deadline_seconds,
                     t.retry_period_seconds) }

\* values of LEADER_ELECTION_CONTROLLER_STOP_TIMEOUT_SECONDS
JoinTimeoutChoices == {4}

_create_lease(r, t) ==
    { [holder_identity |-> {r}, lease_duration_seconds |-> timing.lease_duration_seconds,
       acquire_time |-> t, renew_time |-> t] }

_update_lease(l, r, t) ==
    { [holder_identity |-> {r}, lease_duration_seconds |-> timing.lease_duration_seconds,
       acquire_time |-> IF l.holder_identity # {r} THEN t ELSE l.acquire_time,
       renew_time |-> t] }

\* a cycle that takes over a Lease another holder still renews
_try_acquire_or_renew_Greedy(r, api_ok) ==
    IF ~api_ok THEN [acquired |-> FALSE, lease |-> lease]
    ELSE IF lease = {} THEN [acquired |-> TRUE, lease |-> _create_lease(r, now)]
    ELSE [acquired |-> TRUE, lease |-> _update_lease(CHOOSE x \in lease : TRUE, r, now)]

\* One acquire-or-renew cycle of replica r; api_ok tells whether the API
\* server answers its calls.  Gives the verdict and the Lease afterwards.
_try_acquire_or_renew(r, api_ok) ==
    IF ~api_ok THEN [acquired |-> FALSE, lease |-> lease]
    ELSE IF lease = {} THEN [acquired |-> TRUE, lease |-> _create_lease(r, now)]
    ELSE LET l == CHOOSE x \in lease : TRUE
         IN  IF l.holder_identity = {r}
             THEN [acquired |-> TRUE, lease |-> _update_lease(l, r, now)]
             ELSE IF now - l.renew_time < l.lease_duration_seconds
             THEN [acquired |-> FALSE, lease |-> lease]
             ELSE [acquired |-> TRUE, lease |-> _update_lease(l, r, now)]

\* _release_lease: clear holderIdentity when r holds the Lease
_release_lease(r, api_ok) ==
    IF api_ok /\ lease # {} /\ (CHOOSE x \in lease : TRUE).holder_identity = {r}
    THEN { [l EXCEPT !.holder_identity = {}] : l \in lease }
    ELSE lease

\* an on_stopped_leading that leaves the engine's stop signal alone
on_stopped_leading_NoSignal(r, joining, next) ==
    /\ leader_ready' = [leader_ready EXCEPT ![r] = FALSE]
    /\ UNCHANGED controller_stop
    /\ IF controller_thread[r] = "alive"
       THEN /\ pc' = [pc EXCEPT ![r] = joining]
            /\ join_deadline' = [join_deadline EXCEPT ![r] = now + join_timeout]
            /\ UNCHANGED controller_thread
       ELSE /\ pc' = [pc EXCEPT ![r] = next]
            /\ controller_thread' = [controller_thread EXCEPT ![r] = "none"]
            /\ UNCHANGED join_deadline

\* an on_started_leading that does not look at the previous engine thread
on_started_leading_NoAliveCheck(r) ==
    IF shutdown_event[r]
    THEN UNCHANGED << shutdown_event, controller_thread, controller_stop, superseded,
                      leader_ready, engine_threads >>
    ELSE /\ controller_stop' = [controller_stop EXCEPT ![r] = FALSE]
         /\ leader_ready' = [leader_ready EXCEPT ![r] = TRUE]
         /\ controller_thread' = [controller_thread EXCEPT ![r] = "alive"]
         /\ engine_threads' = [engine_threads EXCEPT ![r] = @ + 1]
         /\ UNCHANGED << shutdown_event, superseded >>

\* on_started_leading of replica r
on_started_leading(r) ==
    IF shutdown_event[r]
    THEN UNCHANGED << shutdown_event, controller_thread, controller_stop, superseded,
                      leader_ready, engine_threads >>
    ELSE IF controller_thread[r] = "alive"
    THEN /\ shutdown_event' = [shutdown_event EXCEPT ![r] = TRUE]
         /\ UNCHANGED << controller_thread, controller_stop, superseded, leader_ready,
                         engine_threads >>
    ELSE /\ controller_stop' = [controller_stop EXCEPT ![r] = FALSE]
         /\ leader_ready' = [leader_ready EXCEPT ![r] = TRUE]
         /\ controller_thread' = [controller_thread EXCEPT ![r] = "alive"]
         /\ engine_threads' = [engine_threads EXCEPT ![r] = @ + 1]
         /\ superseded' = [q \in Replicas |->
                             IF q = r THEN FALSE
                             ELSE superseded[q] \/ controller_thread[q] = "alive"]
         /\ UNCHANGED shutdown_event

\* on_stopped_leading of replica r: clear leader_ready, signal the engine
\* (request_stop and controller_stop.set(), one signal here), then join its
\* thread; the main thread goes on at `next` when there is nothing to wait
\* for and waits at `joining` otherwise
on_stopped_leading(r, joining, next) ==
    /\ leader_ready' = [leader_ready EXCEPT ![r] = FALSE]
    /\ controller_stop' = [controller_stop EXCEPT ![r] = TRUE]
    /\ IF controller_thread[r] = "alive"
       THEN /\ pc' = [pc EXCEPT ![r] = joining]
            /\ join_deadline' = [join_deadline EXCEPT ![r] = now + join_timeout]
            /\ UNCHANGED controller_thread
       ELSE /\ pc' = [pc EXCEPT ![r] = next]
            /\ controller_thread' = [controller_thread EXCEPT ![r] = "none"]
            /\ UNCHANGED join_deadline

\* the engine's own variables, which the electors do not touch
EngineUntouched ==
    UNCHANGED << debounce_seconds, last_hash, last_restart, pending, retry_attempt,
                 deployments, deployment_labels, ready, external_stop, stop_event,
                 phase, resource_version, watch_resource_version, out, coalesced,
                 run_restarts, backoff_seconds, startup_backoff_seconds,
                 seen_version, _active_watcher, watcher, stopped_watchers,
                 request_stop_pc, active_watcher >>

Sleep(r) == wake_at' = [wake_at EXCEPT ![r] = now + timing.retry_period_seconds]

\* elector.run() is entered
ElectorRun(r) ==
    /\ pc[r] = "main"
    /\ pc' = [pc EXCEPT ![r] = "wait"]
    /\ wake_at' = [wake_at EXCEPT ![r] = now]
    /\ last_renew_success' = [last_renew_success EXCEPT ![r] = now]
    /\ EngineUntouched
    /\ UNCHANGED << now, timing, join_timeout, lease, _is_leader, join_deadline,
                    shutdown_event, controller_thread, controller_stop, leading, out_of_turn,
                    superseded, leader_ready, engine_threads, stale_calls >>

\* a leader that gives up leadership on its first failed cycle
HoldsLeadership_Never(elapsed_since_last_renew) ==
    FALSE

\* a leader that still holds on when the renew deadline has just been reached
HoldsLeadership_Inclusive(elapsed_since_last_renew) ==
    elapsed_since_last_renew <= timing.renew_deadline_seconds

\* run(): a leader whose cycle failed holds leadership while the time since
\* its last successful renew is below the renew deadline
HoldsLeadership(elapsed_since_last_renew) ==
    elapsed_since_last_renew < timing.renew_deadline_seconds

\* one pass of the elector's loop: the cycle, the callbacks, the wait;
\* api_ok tells whether the API server answers the cycle's calls
ElectorCycleWith(r, api_ok) ==
    /\ pc[r] = "wait"
    /\ ~shutdown_event[r]
    /\ now >= wake_at[r]
    /\ LET c == _try_acquire_or_renew(r, api_ok)
       IN  /\ lease' = c.lease
           /\ IF c.acquired /\ ~_is_leader[r]
              THEN /\ _is_leader' = [_is_leader EXCEPT ![r] = TRUE]
                   /\ leading' = [leading EXCEPT ![r] = TRUE]
                   /\ out_of_turn' = [out_of_turn EXCEPT ![r] = @ \/ leading[r]]
                   /\ last_renew_success' = [last_renew_success EXCEPT ![r] = now]
                   /\ on_started_leading(r)
                   /\ UNCHANGED << pc, join_deadline >>
              ELSE IF c.acquired /\ _is_leader[r]
              THEN /\ last_renew_success' = [last_renew_success EXCEPT ![r] = now]
                   /\ UNCHANGED << _is_leader, leading, out_of_turn, pc, join_deadline, shutdown_event,
                                   controller_thread, controller_stop, superseded,
                                   leader_ready, engine_threads >>
              ELSE IF _is_leader[r] /\ ~HoldsLeadership(now - last_renew_success[r])
              THEN /\ _is_leader' = [_is_leader EXCEPT ![r] = FALSE]
                   /\ leading' = [leading EXCEPT ![r] = FALSE]
                   /\ out_of_turn' = [out_of_turn EXCEPT ![r] = @ \/ ~leading[r]]
                   /\ on_stopped_leading(r, "joining", "wait")
                   /\ UNCHANGED << last_renew_success, shutdown_event, superseded,
                                   engine_threads >>
              ELSE UNCHANGED << _is_leader, leading, out_of_turn, last_renew_success, pc,
                                join_deadline, shutdown_event, controller_thread,
                                controller_stop, superseded, leader_ready,
                                engine_threads >>
    /\ Sleep(r)
    /\ EngineUntouched
    /\ UNCHANGED << now, timing, join_timeout, stale_calls >>

ElectorCycle(r) == \E api_ok \in BOOLEAN : ElectorCycleWith(r, api_ok)

\* the join of on_stopped_leading returns: the engine thread has ended
JoinReturns(r) ==
    /\ pc[r] \in {"joining", "final_joining"}
    /\ controller_thread[r] = "dead"
    /\ controller_thread' = [controller_thread EXCEPT ![r] = "none"]
    /\ pc' = [pc EXCEPT ![r] = IF pc[r] = "joining" THEN "wait" ELSE "main_stop"]
    /\ Sleep(r)
    /\ EngineUntouched
    /\ UNCHANGED << now, timing, join_timeout, lease, _is_leader, last_renew_success,
                    join_deadline, shutdown_event, controller_stop, leading, out_of_turn, superseded,
                    leader_ready, engine_threads, stale_calls >>

\* the join gives up: the engine thread is still alive, force process shutdown
JoinTimesOut(r) ==
    /\ pc[r] \in {"joining", "final_joining"}
    /\ controller_thread[r] = "alive"
    /\ now >= join_deadline[r]
    /\ shutdown_event' = [shutdown_event EXCEPT ![r] = TRUE]
    /\ pc' = [pc EXCEPT ![r] = IF pc[r] = "joining" THEN "wait" ELSE "main_stop"]
    /\ Sleep(r)
    /\ EngineUntouched
    /\ UNCHANGED << now, timing, join_timeout, lease, _is_leader, last_renew_success,
                    join_deadline, controller_thread, controller_stop, leading, out_of_turn, superseded,
                    leader_ready, engine_threads, stale_calls >>

\* a run() that returns on the shutdown event without stopping to lead
ElectorReturns_KeepsLeading(r) ==
    /\ pc[r] = "wait"
    /\ shutdown_event[r]
    /\ pc' = [pc EXCEPT ![r] = "main_stop"]
    /\ EngineUntouched
    /\ UNCHANGED << now, timing, join_timeout, lease, _is_leader, last_renew_success,
                    wake_at, join_deadline, shutdown_event, controller_thread,
                    controller_stop, leading, out_of_turn, superseded, leader_ready,
                    engine_threads, stale_calls >>

\* the elector's loop sees the shutdown event: release the Lease and stop
\* leading when it leads, then return to main
ElectorReturns(r) ==
    /\ pc[r] = "wait"
    /\ shutdown_event[r]
    /\ IF _is_leader[r]
       THEN /\ \E api_ok \in BOOLEAN : lease' = _release_lease(r, api_ok)
            /\ _is_leader' = [_is_leader EXCEPT ![r] = FALSE]
            /\ leading' = [leading EXCEPT ![r] = FALSE]
            /\ out_of_turn' = [out_of_turn EXCEPT ![r] = @ \/ ~leading[r]]
            /\ on_stopped_leading(r, "final_joining", "main_stop")
       ELSE /\ pc' = [pc EXCEPT ![r] = "main_stop"]
            /\ UNCHANGED << lease, _is_leader, leading, out_of_turn, join_deadline, controller_thread,
                            controller_stop, leader_ready >>
    /\ EngineUntouched
    /\ UNCHANGED << now, timing, join_timeout, last_renew_success, wake_at,
                    shutdown_event, superseded, engine_threads, stale_calls >>

\* main calls on_stopped_leading once more after elector.run() has returned
MainStops(r) ==
    /\ pc[r] = "main_stop"
    /\ leading' = [leading EXCEPT ![r] = FALSE]
    /\ UNCHANGED out_of_turn
    /\ on_stopped_leading(r, "main_joining", "done")
    /\ EngineUntouched
    /\ UNCHANGED << now, timing, join_timeout, lease, _is_leader, last_renew_success,
                    wake_at, shutdown_event, superseded, engine_threads, stale_calls >>

\* main's join ends, by the thread's end or by the timeout (which sets the
\* shutdown event), and the process exits; its daemon engine thread ends
\* with it
ProcessExits(r) ==
    /\ pc[r] = "main_joining"
    /\ controller_thread[r] = "dead" \/ now >= join_deadline[r]
    /\ pc' = [pc EXCEPT ![r] = "done"]
    /\ shutdown_event' = [shutdown_event EXCEPT
                             ![r] = @ \/ controller_thread[r] = "alive"]
    /\ controller_thread' = [controller_thread EXCEPT ![r] = "none"]
    /\ engine_threads' = [engine_threads EXCEPT ![r] = 0]
    /\ EngineUntouched
    /\ UNCHANGED << now, timing, join_timeout, lease, _is_leader, last_renew_success,
                    wake_at, join_deadline, controller_stop, leading, out_of_turn, superseded,
                    leader_ready, stale_calls >>

\* SIGTERM or SIGINT reaches a replica
Signal(r) ==
    /\ pc[r] # "done"
    /\ ~shutdown_event[r]
    /\ shutdown_event' = [shutdown_event EXCEPT ![r] = TRUE]
    /\ EngineUntouched
    /\ UNCHANGED << now, timing, join_timeout, lease, pc, _is_leader, last_renew_success,
                    wake_at, join_deadline, controller_thread, controller_stop, leading, out_of_turn,
                    superseded, leader_ready, engine_threads, stale_calls >>

\* the engine of replica r lists or patches Deployments
EngineCalls(r) ==
    /\ controller_thread[r] = "alive"
    /\ stale_calls' = IF superseded[r] THEN stale_calls \cup {r} ELSE stale_calls
    /\ EngineUntouched
    /\ UNCHANGED << now, timing, join_timeout, lease, pc, _is_leader, last_renew_success,
                    wake_at, join_deadline, shutdown_event, controller_thread,
                    controller_stop, leading, out_of_turn, superseded, leader_ready, engine_threads >>

\* the engine of replica r sees the stop signal: it force-flushes what is
\* pending, if anything, and run_forever returns
EngineStops(r) ==
    /\ controller_thread[r] = "alive"
    /\ controller_stop[r]
    /\ \E flushes \in BOOLEAN :
          stale_calls' = IF flushes /\ superseded[r] THEN stale_calls \cup {r}
                         ELSE stale_calls
    /\ controller_thread' = [controller_thread EXCEPT ![r] = "dead"]
    /\ engine_threads' = [engine_threads EXCEPT ![r] = @ - 1]
    /\ EngineUntouched
    /\ UNCHANGED << now, timing, join_timeout, lease, pc, _is_leader, last_renew_success,
                    wake_at, join_deadline, shutdown_event, controller_stop, leading, out_of_turn,
                    superseded, leader_ready >>

\* run_forever returns without a stop signal (401/403): _run_controller
\* forces process shutdown
EngineExitsUnexpectedly(r) ==
    /\ controller_thread[r] = "alive"
    /\ ~controller_stop[r]
    /\ controller_thread' = [controller_thread EXCEPT ![r] = "dead"]
    /\ shutdown_event' = [shutdown_event EXCEPT ![r] = TRUE]
    /\ engine_threads' = [engine_threads EXCEPT ![r] = @ - 1]
    /\ EngineUntouched
    /\ UNCHANGED << now, timing, join_timeout, lease, pc, _is_leader, last_renew_success,
                    wake_at, join_deadline, controller_stop, leading, out_of_turn, superseded,
                    leader_ready, stale_calls >>

\* A second passes.  Every thread that waits for a time wakes at that time:
\* the clock does not pass a due cycle, a due join timeout or a set event.
LeaderTick ==
    /\ now < MaxLeaderTime
    /\ \A r \in Replicas :
          /\ pc[r] = "wait" =>
                /\ ~shutdown_event[r]
                /\ now < wake_at[r] \/ timing.retry_period_seconds = 0
          /\ pc[r] \in {"joining", "final_joining", "main_joining"} =>
                now < join_deadline[r]
          /\ pc[r] # "main_stop"
    /\ now' = now + 1
    /\ EngineUntouched
    /\ UNCHANGED leader_vars
    /\ UNCHANGED stop_vars
    /\ UNCHANGED seen_version
    /\ UNCHANGED backoff_vars

InitLeader ==
    /\ now = 0
    /\ timing \in AcceptedTimings
    /\ join_timeout \in JoinTimeoutChoices
    /\ lease = {}
    /\ pc = [r \in Replicas |-> "main"]
    /\ _is_leader = [r \in Replicas |-> FALSE]
    /\ last_renew_success = [r \in Replicas |-> 0]
    /\ wake_at = [r \in Replicas |-> 0]
    /\ join_deadline = [r \in Replicas |-> 0]
    /\ shutdown_event = [r \in Replicas |-> FALSE]
    /\ controller_thread = [r \in Replicas |-> "none"]
    /\ controller_stop = [r \in Replicas |-> FALSE]
    /\ leading = [r \in Replicas |-> FALSE]
    /\ out_of_turn = [r \in Replicas |-> FALSE]
    /\ superseded = [r \in Replicas |-> FALSE]
    /\ leader_ready = [r \in Replicas |-> FALSE]
    /\ engine_threads = [r \in Replicas |-> 0]
    /\ stale_calls = {}
    /\ debounce_seconds = 0
    /\ last_hash = EmptyMap
    /\ last_restart = EmptyMap
    /\ pending = EmptyMap
    /\ retry_attempt = EmptyMap
    /\ deployments = [d \in DeploymentNames |-> EmptyMap]
    /\ deployment_labels =
         [d \in DeploymentNames |->
            [app |-> "helloworld", env |-> IF d = "d1" THEN "test" ELSE "prod"]]
    /\ ready = FALSE
    /\ external_stop = FALSE
    /\ stop_event = FALSE
    /\ phase = "idle"
    /\ resource_version = {}
    /\ watch_resource_version = {}
    /\ backoff_seconds = 1
    /\ startup_backoff_seconds = 1
    /\ seen_version = {}
    /\ StopIdle
    /\ out = NoEvent
    /\ coalesced = {}
    /\ run_restarts = {}

NextLeader ==
    \/ \E r \in Replicas : ElectorRun(r)
    \/ \E r \in Replicas : ElectorCycle(r)
    \/ \E r \in Replicas : JoinReturns(r)
    \/ \E r \in Replicas : JoinTimesOut(r)
    \/ \E r \in Replicas : ElectorReturns(r)
    \/ \E r \in Replicas : MainStops(r)
    \/ \E r \in Replicas : ProcessExits(r)
    \/ \E r \in Replicas : Signal(r)
    \/ \E r \in Replicas : EngineCalls(r)
    \/ \E r \in Replicas : EngineStops(r)
    \/ \E r \in Replicas : EngineExitsUnexpectedly(r)
    \/ LeaderTick

all_vars == << engine_vars, leader_vars >>

SpecLeader == InitLeader /\ [][NextLeader]_all_vars

\* C2: for any timing parameters the constructor accepts, at most one
\* replica has invoked on_started_leading without having invoked
\* on_stopped_leading since.
C2_AtMostOneLeading == Cardinality({ r \in Replicas : leading[r] }) <= 1

\* C1: the engine of a replica, its shutdown force-flush included, issues
\* no Deployment list or patch once another replica has invoked
\* on_started_leading and started its own engine.
C1_NoCallOnceSuperseded == stale_calls = {}

\* C18: in the elector's loop, a leader whose cycle fails keeps leadership
\* (is_leader stays true, no callback is invoked) when the time since its
\* last successful renew is strictly below renew_deadline; when that time
\* has reached renew_deadline it sets is_leader false and invokes
\* on_stopped_leading once, and the Lease is left as it was.
C18_FailedCycleOfLeader ==
    [][\A r \in Replicas : \A api_ok \in BOOLEAN :
          (/\ ElectorCycleWith(r, api_ok)
           /\ _is_leader[r]
           /\ ~_try_acquire_or_renew(r, api_ok).acquired) =>
              IF now - last_renew_success[r] < timing.renew_deadline_seconds
              THEN /\ _is_leader'[r]
                   /\ leading'[r]
                   /\ pc'[r] = "wait"
                   /\ UNCHANGED << controller_stop, controller_thread, join_deadline,
                                   shutdown_event, lease >>
              ELSE /\ ~_is_leader'[r]
                   /\ ~leading'[r]
                   /\ controller_stop'[r]
                   /\ pc'[r] = IF controller_thread[r] = "alive" THEN "joining" ELSE "wait"
                   /\ lease' = lease]_all_vars

\* a replica has stopped leading in its loop, renew_deadline or more after
\* its last successful renew, and the Lease still names it as the holder
C18_Witness ==
    \E r \in Replicas :
        /\ ~_is_leader[r]
        /\ ~shutdown_event[r]
        /\ controller_stop[r]
        /\ pc[r] \in {"joining", "wait"}
        /\ now - last_renew_success[r] >= timing.renew_deadline_seconds
        /\ \E l \in lease : l.holder_identity = {r}

\* C19: once a leader that is shut down has released the Lease by clearing
\* holder_identity, the next cycle of any replica that reads the released
\* Lease acquires it, whatever time has passed since renew_time.
C19_ReleasedLeaseIsTakenAtOnce ==
    \A r \in Replicas :
        (/\ pc[r] = "wait"
         /\ ~shutdown_event[r]
         /\ \E l \in lease : l.holder_identity = {}) =>
            _try_acquire_or_renew(r, TRUE).acquired

\* C20: one cycle, answered by the API, against an existing Lease: held by
\* another identity and renewed less than lease_duration ago, the cycle
\* returns not-acquired and writes nothing; held by another identity and
\* expired, it writes holder = self and acquire_time = renew_time = now;
\* held by self, it writes renew_time = now and keeps acquire_time.
C20_CycleAgainstExistingLease ==
    \A r \in Replicas : \A l \in lease :
        LET c == _try_acquire_or_renew(r, TRUE)
        IN  IF l.holder_identity = {r}
            THEN /\ c.acquired
                 /\ c.lease = { [holder_identity |-> {r},
                                 lease_duration_seconds |-> timing.lease_duration_seconds,
                                 acquire_time |-> l.acquire_time, renew_time |-> now] }
            ELSE IF l.holder_identity = {} THEN TRUE
            ELSE IF now - l.renew_time < l.lease_duration_seconds
            THEN ~c.acquired /\ c.lease = lease
            ELSE /\ c.acquired
                 /\ c.lease = { [holder_identity |-> {r},
                                 lease_duration_seconds |-> timing.lease_duration_seconds,
                                 acquire_time |-> now, renew_time |-> now] }

\* a replica has just taken over the expired Lease of another replica that
\* had acquired it earlier and still believes it leads
C20_Witness ==
    \E r \in Replicas : \E q \in Replicas \ {r} :
        /\ lease = { [holder_identity |-> {r},
                      lease_duration_seconds |-> timing.lease_duration_seconds,
                      acquire_time |-> now, renew_time |-> now] }
        /\ _is_leader[r]
        /\ _is_leader[q]
        /\ last_renew_success[q] + timing.lease_duration_seconds <= now

(***************************************************************************)
(* Properties of the event handler.  They are stated over every event the  *)
(* stream can deliver in the current state and every way the cluster API   *)
(* can answer the executor.                                                *)
(***************************************************************************)
HandlerRuns == phase = "stream" /\ ~_should_stop

\* ADDED or MODIFIED events that pass the label filter and carry env and name
DataEvents == { e \in Events : e.type \in {"ADDED", "MODIFIED"} /\ Eligible(e.object) }

Handled(e, fm) == handle_configmap_event(EngineState, e.type, e.object, now, fm)

\* the debounce time that remains for key k in the current state
Remaining(k) ==
    IF debounce_seconds > 0 /\ k \in DOMAIN last_restart
                            /\ now - last_restart[k] < debounce_seconds
    THEN debounce_seconds - (now - last_restart[k])
    ELSE 0

\* C3: an ADDED event for a key that has no last_hash entry never invokes the
\* executor: the handler returns nothing and the only thing it changes is
\* last_hash[K], which becomes the hash of the event's data.
C3_AddedWithoutBaselineOnlySeeds ==
    HandlerRuns =>
    \A e \in DataEvents : \A fm \in FailModes :
        (e.type = "ADDED" /\ KeyOf(e.object) \notin DOMAIN last_hash) =>
            LET h == Handled(e, fm)
            IN  /\ h.st.calls = <<>>
                /\ h.ret = {}
                /\ h.st.last_hash = Put(last_hash, KeyOf(e.object), HashOf(e.object))
                /\ h.st.last_restart = last_restart
                /\ h.st.pending = pending
                /\ h.st.retry_attempt = retry_attempt
                /\ h.st.deployments = deployments

\* the stream has just delivered an ADDED event for a key without baseline,
\* and the key now holds the hash of the event's data
C3_Witness ==
    /\ out.event_type = "ADDED"
    /\ out.key # {}
    /\ out.prev_hash = {}
    /\ out.ret = {}
    /\ \A k \in out.key : Get(last_hash, k) = out.hash

\* C4: an ADDED or MODIFIED event whose data hash equals the stored
\* last_hash[K] returns no result, invokes no executor and leaves pending,
\* retry_attempt and last_restart as they were.
C4_SameHashIsNoOp ==
    HandlerRuns =>
    \A e \in DataEvents : \A fm \in FailModes :
        Get(last_hash, KeyOf(e.object)) = {HashOf(e.object)} =>
            LET h == Handled(e, fm)
            IN  /\ h.ret = {}
                /\ h.st.calls = <<>>
                /\ h.st.pending = pending
                /\ h.st.retry_attempt = retry_attempt
                /\ h.st.last_restart = last_restart

\* the stream has just delivered an event whose hash equals the stored one,
\* for a key that has a restart queued, and the queue entry is still there
C4_Witness ==
    /\ out.event_type \in {"ADDED", "MODIFIED"}
    /\ out.key # {}
    /\ out.prev_hash # {}
    /\ out.prev_hash = out.hash
    /\ out.ret = {}
    /\ \A k \in out.key : k \in DOMAIN pending /\ k \in DOMAIN retry_attempt

\* C5: a MODIFIED event for a key without baseline, and an ADDED event whose
\* hash differs from the stored baseline, are real changes: the handler
\* defers the restart while debounce time remains and calls the executor at
\* once, returning its result, when none remains.
C5_ChangeGoesToDebounceDecision ==
    HandlerRuns =>
    \A e \in DataEvents : \A fm \in FailModes :
        LET k == KeyOf(e.object)
        IN  (\/ e.type = "MODIFIED" /\ k \notin DOMAIN last_hash
             \/ e.type = "ADDED" /\ k \in DOMAIN last_hash
                                 /\ last_hash[k] # HashOf(e.object)) =>
                LET h == Handled(e, fm)
                IN  IF Remaining(k) > 0
                    THEN /\ h.st.calls = <<>>
                         /\ h.ret = {}
                         /\ k \in DOMAIN h.st.pending
                    ELSE /\ Len(h.st.calls) = 1
                         /\ h.st.calls[1].key = k
                         /\ h.st.calls[1].caller = "event"
                         /\ h.st.calls[1].at = now
                         /\ h.ret = {h.st.calls[1].result}

\* the stream has just delivered a MODIFIED event for a key without baseline
\* and the handler returned the executor's result
C5_Witness ==
    /\ out.event_type = "MODIFIED"
    /\ out.key # {}
    /\ out.prev_hash = {}
    /\ out.ret # {}

\* C7: a changed-data event that arrives while debounce time remains invokes
\* no executor and returns nothing; pending[K] becomes the later of the
\* queued due time and now + remaining, K leaves retry_attempt, and
\* last_restart is unchanged.
C7_DeferredEvent ==
    HandlerRuns =>
    \A e \in DataEvents : \A fm \in FailModes :
        LET k == KeyOf(e.object)
        IN  (/\ Remaining(k) > 0
             /\ \/ e.type = "MODIFIED" /\ k \notin DOMAIN last_hash
                \/ k \in DOMAIN last_hash /\ last_hash[k] # HashOf(e.object)) =>
                LET h == Handled(e, fm)
                    due == now + Remaining(k)
                IN  /\ h.st.calls = <<>>
                    /\ h.ret = {}
                    /\ h.st.pending =
                         Put(pending, k, IF k \in DOMAIN pending /\ pending[k] > due
                                         THEN pending[k] ELSE due)
                    /\ h.st.retry_attempt = Pop(retry_attempt, k)
                    /\ h.st.last_restart = last_restart

\* the stream has just delivered a changed-data event inside the debounce
\* window of a key whose queued retry was due later than the window's end:
\* the later due time was kept
C7_Witness ==
    /\ out.event_type \in {"ADDED", "MODIFIED"}
    /\ out.prev_hash # out.hash
    /\ out.ret = {}
    /\ \E k \in out.key :
          /\ k \in DOMAIN last_restart
          /\ k \in DOMAIN pending
          /\ k \notin DOMAIN retry_attempt
          /\ now - last_restart[k] < debounce_seconds
          /\ pending[k] > last_restart[k] + debounce_seconds

(***************************************************************************)
(* Properties of the executor calls.  They are stated over every step      *)
(* run_forever can take from the current state.                            *)
(***************************************************************************)
\* the events the steps below are taken with: every data event of the
\* stream and one event the handler ignores
StepEvents ==
    { e \in EngineEvents :
        e.type = "MODIFIED" /\ (Eligible(e.object) \/ e.object.name = "") } \cup
    { e \in EngineEvents : e.type = "ADDED" }

\* the engine states one step of run_forever can end in
ExecutorSteps ==
    InitialListOutcomes(EngineLists, EngineVersions) \cup WatchOpenOutcomes \cup
    { AfterEvent(o) : o \in HandlerOutcomes(StepEvents, EngineVersions) } \cup
    WatchEndOutcomes \cup RelistOutcomes(EngineLists, EngineVersions) \cup ShutdownOutcomes

C8_PatchCarriesCurrentHash ==
    /\ \A st \in ExecutorSteps : \A c \in Calls(st) : \A p \in c.patches :
          /\ RolloutAnnotationKey \in DOMAIN p.body
          /\ _config_hash_annotation_key(c.key[2]) \in DOMAIN p.body
          /\ {p.body[_config_hash_annotation_key(c.key[2])]} = Get(st.last_hash, c.key)
    /\ \A o \in HandlerOutcomes(StepEvents, EngineVersions) : \A c \in Calls(AfterEvent(o)) :
          (EventKey(o.event) = {c.key}) =>
              \A p \in c.patches :
                  p.body[_config_hash_annotation_key(c.key[2])] = HashOf(o.event.object)

\* a queued restart whose key saw a further change while it waited is about
\* to be executed by a drain or by the flush, and patches a Deployment
C8_Witness ==
    \E st \in WatchOpenOutcomes \cup WatchEndOutcomes \cup ShutdownOutcomes :
        \E c \in Calls(st) :
            /\ c.coalesced
            /\ c.patches # {}
            /\ \A p \in c.patches :
                  {p.body[_config_hash_annotation_key(c.key[2])]} = Get(last_hash, c.key)

\* the delay before retry number n: 1, 2, 4, 8, 16, 30, 30, ...
RetryDelay(n) == IF n >= 6 THEN 30 ELSE << 1, 2, 4, 8, 16 >>[n]

\* C9: a non-forced executor call that reports failed > 0 raises
\* retry_attempt[K] by one, sets pending[K] to now plus the delay of that
\* attempt (1, 2, 4, 8, 16, then 30), and neither creates nor changes
\* last_restart[K].
C9_FailureSchedulesRetry ==
    \A st \in ExecutorSteps : \A c \in Calls(st) :
        (~c.force /\ c.result.failed > 0) =>
            LET attempt == (IF c.prev_attempt = {} THEN 0
                            ELSE CHOOSE a \in c.prev_attempt : TRUE) + 1
            IN  /\ Get(st.retry_attempt, c.key) = {attempt}
                /\ Get(st.pending, c.key) = {c.at + RetryDelay(attempt)}
                /\ Get(st.last_restart, c.key) = c.prev_restart

\* the sixth failure in a row is about to happen: the retry is queued 30
\* seconds ahead
C9_Witness ==
    \E st \in ExecutorSteps : \E c \in Calls(st) :
        /\ ~c.force
        /\ c.result.failed > 0
        /\ c.prev_attempt = {5}
        /\ Get(st.retry_attempt, c.key) = {6}
        /\ Get(st.pending, c.key) = {now + 30}

\* C10: after an executor call for K that reports failed = 0, whichever
\* path made it, K is in neither pending nor retry_attempt and
\* last_restart[K] is the time passed to the call.
C10_SuccessClearsQueue ==
    \A st \in ExecutorSteps : \A c \in Calls(st) :
        c.result.failed = 0 =>
            /\ c.key \notin DOMAIN st.pending
            /\ c.key \notin DOMAIN st.retry_attempt
            /\ Get(st.last_restart, c.key) = {c.at}

\* a key that had failed before is about to be restarted successfully
C10_Witness ==
    \E st \in ExecutorSteps : \E c \in Calls(st) :
        /\ c.result.failed = 0
        /\ c.prev_attempt # {}
        /\ c.key \in DOMAIN pending
        /\ c.key \notin DOMAIN st.pending
        /\ c.key \notin DOMAIN st.retry_attempt

(***************************************************************************)
(* Properties of the force-flush, the leadership handoff, the re-list and  *)
(* the startup drift reconciler, over the cluster specification.           *)
(***************************************************************************)
\* the calls a step made for key k
CallsFor(st, k) == { i \in 1..Len(st.calls) : st.calls[i].key = k }

\* C12: the force-flush invokes the executor exactly once for every key that
\* is in pending when it starts, due or not, and for no other key; a key
\* whose forced call fails or raises is dropped, not re-queued; when the
\* flush returns, pending and retry_attempt are both empty.
C12_FlushRunsEveryPendingKeyOnce ==
    \A st \in FlushOutcomes(Raisings) :
        /\ \A k \in DOMAIN pending :
              /\ Cardinality(CallsFor(st, k)) = 1
              /\ \A i \in CallsFor(st, k) : st.calls[i].force /\ st.calls[i].at = now
        /\ \A i \in 1..Len(st.calls) : st.calls[i].key \in DOMAIN pending
        /\ st.pending = EmptyMap
        /\ st.retry_attempt = EmptyMap
        /\ \A i \in 1..Len(st.calls) :
              st.calls[i].result.failed > 0 =>
                  Get(st.last_restart, st.calls[i].key) = st.calls[i].prev_restart

\* the engine is about to flush two pending keys, one of them not due yet;
\* the flush can fail for one of them, which is then dropped
C12_Witness ==
    /\ Cardinality(DOMAIN pending) = 2
    /\ \E k \in DOMAIN pending : pending[k] > now
    /\ retry_attempt # EmptyMap
    /\ \E st \in FlushOutcomes(Raisings) :
          /\ \E i \in 1..Len(st.calls) : st.calls[i].raised
          /\ \E i \in 1..Len(st.calls) : st.calls[i].result.failed = 0
          /\ st.pending = EmptyMap

\* a freshly built controller of another replica, which finds the
\* Deployments as `deps`
FreshController(deps) ==
    [EngineState EXCEPT !.last_hash = EmptyMap, !.last_restart = EmptyMap,
                        !.pending = EmptyMap, !.retry_attempt = EmptyMap,
                        !.deployments = deps, !.resource_version = {},
                        !.watch_resource_version = {}, !.coalesced = {},
                        !.run_restarts = {}]

\* the list response shows every ConfigMap with the data the state st holds
\* the hash of, and shows every key of `keys`
ListShowsNoChange(items, st, keys) ==
    /\ keys \subseteq ListedKeys(items)
    /\ ListedKeys(items) \subseteq DOMAIN st.last_hash
    /\ \A i \in 1..Len(items) : HashOf(items[i]) = st.last_hash[KeyOf(items[i])]

\* C13: after controller A has force-flushed its pending restarts with
\* success, a fresh controller B that seeds its cache from the current
\* ConfigMap list (the data A last observed), runs the startup drift
\* reconciler and then sees an event with the same data issues no
\* Deployment patch.
C13_NoRestartAfterHandoff ==
    (phase = "watch" /\ _should_stop /\ pending # EmptyMap) =>
    \A fpA \in PlansFor(DOMAIN pending) :
        LET a == Flush(fpA, {})
        IN  (\A i \in 1..Len(a.calls) : a.calls[i].result.failed = 0) =>
            \A items \in ClusterLists :
                ListShowsNoChange(items, a, DOMAIN pending) =>
                \A fp \in PlansFor(ListedKeys(items)) :
                \A drift_fail \in SUBSET ListedKeys(items) :
                    LET b == _reconcile_startup_drift(
                                 _sync_cache_from_list(FreshController(a.deployments),
                                                       items, FALSE, now, fp),
                                 items, now, fp, drift_fail)
                    IN  \A i \in 1..Len(items) : \A t \in {"ADDED", "MODIFIED"} :
                            LET h == handle_configmap_event(b, t, items[i], now,
                                                            fp[KeyOf(items[i])])
                            IN  \A j \in 1..Len(h.st.calls) : h.st.calls[j].patches = {}

\* the ConfigMap a list response shows for key k
ListedAs(items, k) == items[CHOOSE i \in 1..Len(items) : Eligible(items[i]) /\ KeyOf(items[i]) = k]

\* C14: when the watch raises 410 the engine re-lists and goes on from the
\* re-list's resource_version, which the next watch is opened from.  For
\* each listed key already in the hash cache: unchanged data brings no
\* executor call and leaves the queue entry of the key alone; changed data
\* brings exactly one executor call at once when no debounce time remains,
\* and otherwise no call and one queue entry for the key.
C14_RelistRestartsChangedKeysOnce ==
    /\ \A st \in WatchOpenOutcomes : st.watch_resource_version = resource_version
    /\ phase = "stream" =>
        \A items \in ClusterLists : \A v \in RelistVersions :
        \A fp \in PlansFor(ListedKeys(items)) :
            LET st == Relist(items, v, fp)
            IN  /\ st.resource_version = v
                /\ \A k \in ListedKeys(items) \cap DOMAIN last_hash :
                      IF HashOf(ListedAs(items, k)) = last_hash[k]
                      THEN /\ CallsFor(st, k) = {}
                           /\ Get(st.pending, k) = Get(pending, k)
                           /\ Get(st.retry_attempt, k) = Get(retry_attempt, k)
                      ELSE IF Remaining(k) > 0
                      THEN /\ CallsFor(st, k) = {}
                           /\ k \in DOMAIN st.pending
                           /\ st.pending[k] >= now + Remaining(k)
                           /\ k \notin DOMAIN st.retry_attempt
                      ELSE /\ Cardinality(CallsFor(st, k)) = 1
                           /\ \A i \in CallsFor(st, k) :
                                 /\ st.calls[i].caller = "relist"
                                 /\ st.calls[i].at = now
                                 /\ st.calls[i].hash = {HashOf(ListedAs(items, k))}

\* the watch was opened from version "1" and a re-list with version "2" is
\* about to show changed data for one cached key, which is restarted at
\* once, and unchanged data for another
C14_Witness ==
    /\ phase = "stream"
    /\ watch_resource_version = {"1"}
    /\ \E items \in ClusterLists : \E v \in RelistVersions :
          LET st == Relist(items, v, NoFailPlan)
          IN  /\ st.resource_version = {"2"}
              /\ \E k \in ListedKeys(items) \cap DOMAIN last_hash :
                    /\ HashOf(ListedAs(items, k)) # last_hash[k]
                    /\ \E i \in CallsFor(st, k) : st.calls[i].patches # {}
              /\ \E k \in ListedKeys(items) \cap DOMAIN last_hash :
                    /\ HashOf(ListedAs(items, k)) = last_hash[k]
                    /\ CallsFor(st, k) = {}

\* the executor calls the drift reconciler made for key k
DriftCallsFor(st, k) == { i \in CallsFor(st, k) : st.calls[i].caller = "drift" }

\* some Deployment of k's env carries a hash annotation for k's ConfigMap
\* that differs from hash h, or the rollout annotation without one
SomeDeploymentDrifted(k, h) ==
    \E d \in DeploymentNames :
        /\ deployment_labels[d] = [app |-> "helloworld", env |-> k[1]]
        /\ LET observed == Get(deployments[d], _config_hash_annotation_key(k[2]))
           IN  \/ observed # {} /\ observed # {h}
               \/ observed = {} /\ RolloutAnnotationKey \in DOMAIN deployments[d]

\* every Deployment of k's env carries hash h for k's ConfigMap
EveryDeploymentInSync(k, h) ==
    \A d \in DeploymentNames :
        deployment_labels[d] = [app |-> "helloworld", env |-> k[1]]
            => Get(deployments[d], _config_hash_annotation_key(k[2])) = {h}

C16_DriftLeavesUnmanagedDeploymentsAlone ==
    \A st \in InitialListOutcomes(ClusterLists, InitialVersions) :
        \A i \in 1..Len(st.calls) :
            st.calls[i].caller = "drift" =>
                \A p \in st.calls[i].patches : deployments[p.name] # EmptyMap

\* the Deployments a restart result says were patched
PatchedBy(r) == { p.name : p \in r.patches }

\* the engine state with the Deployments as executor result r leaves them
AfterExecutor(r) == [EngineState EXCEPT !.deployments = r.deployments]

\* C17: with last_hash[K] fixed, the executor never patches a Deployment
\* whose pod template already carries the hash annotation with that value;
\* run twice in a row it patches each Deployment at most once, and the
\* second run patches only Deployments whose patch failed in the first
\* (all of them when the API answers the second run).
C17_ExecutorIdempotentPerHash ==
    \A k \in DOMAIN last_hash : \A fm1 \in FailModes : \A fm2 \in FailModes :
        LET hash_annotation_key == _config_hash_annotation_key(k[2])
            matched == list_namespaced_deployment(
                           EngineState, _deployment_selector_for_env(k[1]))
            carrying == { d \in matched :
                            Get(deployments[d], hash_annotation_key) = {last_hash[k]} }
            r1 == _restart_deployments_for_env(EngineState, k[1], k[2], now, fm1)
            r2 == _restart_deployments_for_env(AfterExecutor(r1), k[1], k[2], now, fm2)
            failed_first == IF fm1.list THEN matched \ carrying
                            ELSE (matched \ carrying) \cap fm1.patch
        IN  /\ PatchedBy(r1) \cap carrying = {}
            /\ PatchedBy(r1) \cap PatchedBy(r2) = {}
            /\ PatchedBy(r2) \subseteq failed_first
            /\ fm2 = NoFail => PatchedBy(r2) = failed_first
            /\ \A d \in PatchedBy(r1) :
                  Get(r1.deployments[d], hash_annotation_key) = {last_hash[k]}

\* one Deployment already carries the hash of a cached key and the other
\* does not: a first executor run in which the patch of the other fails
\* patches nothing, and the second run patches only that one
C17_Witness ==
    \E k \in DOMAIN last_hash : \E d \in DeploymentNames : \E e \in DeploymentNames :
        /\ Get(deployments[d], _config_hash_annotation_key(k[2])) = {last_hash[k]}
        /\ Get(deployments[e], _config_hash_annotation_key(k[2])) # {last_hash[k]}
        /\ LET r1 == _restart_deployments_for_env(EngineState, k[1], k[2], now,
                                                 [list |-> FALSE, patch |-> {e}])
               r2 == _restart_deployments_for_env(AfterExecutor(r1), k[1], k[2], now, NoFail)
           IN  /\ r1.result.failed = 1
               /\ PatchedBy(r1) = {}
               /\ PatchedBy(r2) = {e}

(***************************************************************************)
(* One engine that keeps running: no stop request, no denial, and a clock  *)
(* that never ends.  The engine reads the clock only in differences        *)
(* (now - last_restart[K], pending[K] - now), so a second passing is       *)
(* written as every stored time moving one second into the past, down to   *)
(* the point from which the difference no longer matters: a queue entry is *)
(* due from `now` on, a debounce window is over debounce_seconds after the *)
(* last restart.                                                           *)
(***************************************************************************)
\* The cluster API keeps answering: the executor fails for a key at most
\* this many times in a row.  A failing call is possible only while the
\* retry counter of the key can still grow, and the event handler, which
\* resets the counter before it calls the executor, cannot fail for a key
\* whose retry is queued.
MaxLiveAttempt == 2

ApiAnswersInTheEnd ==
    /\ \A k \in DOMAIN retry_attempt' : retry_attempt'[k] <= MaxLiveAttempt
    /\ \A k \in out'.key :
          (\E r \in out'.ret : r.failed > 0) => k \notin DOMAIN retry_attempt

InitLive ==
    /\ LeaderIdle
    /\ now = 0
    /\ debounce_seconds = 2
    /\ last_hash = EmptyMap
    /\ last_restart = EmptyMap
    /\ pending = EmptyMap
    /\ retry_attempt = EmptyMap
    /\ deployments \in [DeploymentNames -> InitialAnnotations]
    /\ deployments["d1"] = EmptyMap
    /\ deployment_labels =
         [d \in DeploymentNames |-> [app |-> "helloworld", env |-> "test"]]
    /\ ready = FALSE
    /\ external_stop = FALSE
    /\ stop_event = FALSE
    /\ phase = "idle"
    /\ resource_version = {}
    /\ watch_resource_version = {}
    /\ backoff_seconds = 1
    /\ startup_backoff_seconds = 1
    /\ seen_version = {}
    /\ StopIdle
    /\ out = NoEvent
    /\ coalesced = {}
    /\ run_restarts = {}

\* time.monotonic() advances by one second
LiveTick ==
    /\ last_restart' = [k \in DOMAIN last_restart |->
                            Max2(last_restart[k] - 1, now - debounce_seconds)]
    /\ pending' = [k \in DOMAIN pending |-> Max2(pending[k] - 1, now)]
    /\ out' = NoEvent
    /\ UNCHANGED leader_vars
    /\ UNCHANGED stop_vars
    /\ UNCHANGED seen_version
    /\ UNCHANGED backoff_vars
    /\ UNCHANGED << now, debounce_seconds, last_hash, retry_attempt, deployments,
                    deployment_labels, ready, external_stop, stop_event, phase,
                    resource_version, watch_resource_version, coalesced, run_restarts >>

LiveInitialListOk == InitialListOkIn(ClusterLists, InitialVersions) /\ ApiAnswersInTheEnd

LiveWatchOpen == WatchOpen /\ ApiAnswersInTheEnd

\* the stream of change events for "a" never has to end
LiveWatchEvent == WatchEventIn(ClusterEvents, EventVersions) /\ ApiAnswersInTheEnd

LiveWatchEnd == WatchEnd /\ ApiAnswersInTheEnd

NextLive ==
    \/ RunForever
    \/ LiveInitialListOk
    \/ LiveWatchOpen
    \/ LiveWatchEvent
    \/ LiveWatchEnd
    \/ LiveTick

live_vars == << engine_vars, leader_vars >>

\* a second passing changes something the engine will read
TimeMatters ==
    \/ out # NoEvent
    \/ \E k \in DOMAIN pending : pending[k] > now
    \/ \E k \in DOMAIN last_restart : last_restart[k] > now - debounce_seconds

\* Weak fairness of the clock, of the top of the watch loop and of the end
\* of the watch stream (which ends by its timeout).  WF_live_vars(A) is
\* written out as []<>(~ENABLED <<A>>_live_vars) \/ []<><<A>>_live_vars with
\* the state predicate ENABLED amounts to: the loop steps are enabled at
\* their position of run_forever, whatever the queue holds.
SpecLive ==
    /\ InitLive
    /\ [][NextLive]_live_vars
    /\ ([]<>(~TimeMatters) \/ []<><<LiveTick>>_live_vars)
    /\ ([]<>(phase # "watch") \/ []<><<LiveWatchOpen>>_live_vars)
    /\ ([]<>(phase # "stream") \/ []<><<LiveWatchEnd>>_live_vars)

\* C11: while the engine keeps running and the cluster API answers in the
\* end, every key in pending is eventually restarted with failed == 0 and
\* leaves pending, whatever change events keep arriving for it.
C11_PendingKeyIsEventuallyRestarted ==
    \A k \in Keys :
        (k \in DOMAIN pending) ~> (k \notin DOMAIN pending /\ k \in run_restarts)

\* a key waits in the queue after a failed restart, its retry not yet due,
\* while the watch stream is open
C11_Witness ==
    /\ phase = "stream"
    /\ \E k \in DOMAIN pending :
          /\ pending[k] > now
          /\ k \in DOMAIN retry_attempt
          /\ k \in DOMAIN last_restart

(***************************************************************************)
(* One run of run_forever against a cluster API that fails: every call of  *)
(* the ConfigMap list and of the watch can be answered by an ApiException  *)
(* of some status or end in an exception that is not an ApiException (a    *)
(* transport error of the HTTP client), and so can the Deployment list of  *)
(* a restart.  phase tells where run_forever is; it is "crashed" once an   *)
(* exception has left run_forever.                                         *)
(***************************************************************************)
\* what a failing API call raises: ApiException(status), or something else
ApiStatuses == {"401", "403", "500"}

Failures == ApiStatuses \cup {"transport"}

\* a check that takes only 401 for an authorisation failure
AuthDenied_Only401(status) == status = "401"

\* exc.status in {401, 403}
AuthDenied(status) == status \in {"401", "403"}

\* self.ready.clear(); return
ReturnDenied ==
    /\ ready' = FALSE
    /\ phase' = "idle"
    /\ resource_version' = {}
    /\ watch_resource_version' = {}

\* the initial list fails: return on 401/403, else sleep the startup backoff
InitialListFails(status) ==
    /\ phase = "init"
    /\ ~_should_stop
    /\ IF AuthDenied(status)
       THEN ReturnDenied
       ELSE /\ phase' = "init_backoff"
            /\ UNCHANGED << ready, resource_version, watch_resource_version >>
    /\ out' = NoEvent
    /\ UNCHANGED leader_vars
    /\ UNCHANGED stop_vars
    /\ UNCHANGED seen_version
    /\ UNCHANGED backoff_vars
    /\ Unchanged(EngineState)
    /\ UNCHANGED << now, run_restarts, external_stop, stop_event >>

\* stop.wait(timeout=jittered) of the initial list's loop returns
InitialBackoffSleeps ==
    /\ phase = "init_backoff"
    /\ phase' = "init"
    /\ out' = NoEvent
    /\ UNCHANGED leader_vars
    /\ UNCHANGED stop_vars
    /\ UNCHANGED seen_version
    /\ Unchanged(EngineState)
    /\ UNCHANGED << now, ready, run_restarts, resource_version, watch_resource_version,
                    external_stop, stop_event >>

\* the sleep after a failed initial list and the doubling that follows it
InitialBackoffEnds ==
    /\ InitialBackoffSleeps
    /\ startup_backoff_seconds' = DoubledBackoff(startup_backoff_seconds)
    /\ UNCHANGED backoff_seconds

\* The stop signal arrives while the initial list, the cache seeding and
\* the drift reconciliation run: ready is set, the loop is left, and the
\* check that follows clears ready and returns.
InitialListThenStoppedIn(lists, versions) ==
    /\ \E st \in InitialListOutcomes(lists, versions) : Commit(st)
    /\ stop_event' = TRUE
    /\ ready' = FALSE
    /\ phase' = "idle"
    /\ out' = NoEvent
    /\ UNCHANGED leader_vars
    /\ UNCHANGED stop_vars
    /\ UNCHANGED seen_version
    /\ UNCHANGED backoff_vars
    /\ UNCHANGED << now, external_stop >>

\* The Deployment list of the first due restart of the drain at the top of
\* the watch loop ends in an exception that is not an ApiException: the
\* executor catches ApiException only and the drain is outside the try.
DrainRaises ==
    /\ phase = "watch"
    /\ ~_should_stop
    /\ \E k \in DOMAIN pending : pending[k] <= now
    /\ phase' = "crashed"
    /\ out' = NoEvent
    /\ UNCHANGED leader_vars
    /\ UNCHANGED stop_vars
    /\ UNCHANGED seen_version
    /\ UNCHANGED backoff_vars
    /\ Unchanged(EngineState)
    /\ UNCHANGED << now, ready, run_restarts, resource_version, watch_resource_version,
                    external_stop, stop_event >>

\* the watch, the handler or a drain inside the try fails with anything
\* but 410: return on 401/403, else sleep the backoff and go back to the top
WatchFails(status) ==
    /\ phase = "stream"
    /\ IF AuthDenied(status)
       THEN ReturnDenied
       ELSE /\ phase' = "watch_backoff"
            /\ watch_resource_version' = {}
            /\ UNCHANGED << ready, resource_version >>
    /\ out' = NoEvent
    /\ UNCHANGED leader_vars
    /\ UNCHANGED stop_vars
    /\ UNCHANGED seen_version
    /\ UNCHANGED backoff_vars
    /\ Unchanged(EngineState)
    /\ UNCHANGED << now, run_restarts, external_stop, stop_event >>

\* stop.wait(timeout=jittered) of the watch loop returns
WatchBackoffSleeps ==
    /\ phase = "watch_backoff"
    /\ phase' = "watch"
    /\ out' = NoEvent
    /\ UNCHANGED leader_vars
    /\ UNCHANGED stop_vars
    /\ UNCHANGED seen_version
    /\ Unchanged(EngineState)
    /\ UNCHANGED << now, ready, run_restarts, resource_version, watch_resource_version,
                    external_stop, stop_event >>

\* the sleep after a watch error and the doubling that follows it
WatchBackoffEnds ==
    /\ WatchBackoffSleeps
    /\ backoff_seconds' = DoubledBackoff(backoff_seconds)
    /\ UNCHANGED startup_backoff_seconds

\* The watch raises 410 and the re-list fails: return on 401/403; on any
\* other ApiException forget the resource version and go back to the top;
\* an exception that is not an ApiException is raised inside the handler
\* of the 410 and leaves run_forever.
RelistFails(status) ==
    /\ phase = "stream"
    /\ IF AuthDenied(status)
       THEN ReturnDenied
       ELSE /\ phase' = IF status \in ApiStatuses THEN "watch" ELSE "crashed"
            /\ resource_version' = IF status \in ApiStatuses THEN {} ELSE resource_version
            /\ watch_resource_version' = {}
            /\ UNCHANGED ready
    /\ out' = NoEvent
    /\ UNCHANGED leader_vars
    /\ UNCHANGED stop_vars
    /\ UNCHANGED seen_version
    /\ UNCHANGED backoff_vars
    /\ Unchanged(EngineState)
    /\ UNCHANGED << now, run_restarts, external_stop, stop_event >>

\* list responses that show ConfigMap "a" alone
FaultLists == { items \in ClusterLists : Len(items) = 1 }

InitFaults ==
    /\ LeaderIdle
    /\ now = 0
    /\ debounce_seconds = 2
    /\ last_hash = EmptyMap
    /\ last_restart = EmptyMap
    /\ pending = EmptyMap
    /\ retry_attempt = EmptyMap
    /\ deployments \in [DeploymentNames -> InitialAnnotations]
    /\ deployments["d1"] = EmptyMap
    /\ deployment_labels =
         [d \in DeploymentNames |-> [app |-> "helloworld", env |-> "test"]]
    /\ ready = FALSE
    /\ external_stop = FALSE
    /\ stop_event = FALSE
    /\ phase = "idle"
    /\ resource_version = {}
    /\ watch_resource_version = {}
    /\ backoff_seconds = 1
    /\ startup_backoff_seconds = 1
    /\ seen_version = {}
    /\ StopIdle
    /\ out = NoEvent
    /\ coalesced = {}
    /\ run_restarts = {}

FaultsInitialListOk == InitialListOkIn(FaultLists, InitialVersions)

\* This specification follows where run_forever is and what it has queued,
\* not how long it sleeps: the two bases stay at their first value here,
\* and SpecBackoff follows them.
FaultsInitialBackoffEnds == InitialBackoffSleeps /\ UNCHANGED backoff_vars

FaultsWatchBackoffEnds == WatchBackoffSleeps /\ UNCHANGED backoff_vars

FaultsInitialListThenStopped ==
    AttemptsBelowBound /\ InitialListThenStoppedIn(FaultLists, InitialVersions)

FaultsWatchOpen == AttemptsBelowBound /\ WatchOpen

FaultsWatchEvent == AttemptsBelowBound /\ WatchEventIn(ClusterEvents, EventVersions)

FaultsWatchEnd == AttemptsBelowBound /\ WatchEnd

FaultsRelistOk == WatchGoneRelistOkIn(FaultLists, RelistVersions)

\* leadership is acquired again after a run that was told to stop: the
\* supervisor calls run_forever on the same controller object
FaultsRunAgain == _should_stop /\ RunForever

NextFaults ==
    \/ ClusterRunForever
    \/ FaultsRunAgain
    \/ FaultsInitialListOk
    \/ FaultsInitialListThenStopped
    \/ \E status \in Failures : InitialListFails(status)
    \/ FaultsInitialBackoffEnds
    \/ InitialStopped
    \/ FaultsWatchOpen
    \/ DrainRaises
    \/ FaultsWatchEvent
    \/ FaultsWatchEnd
    \/ \E status \in Failures : WatchFails(status)
    \/ FaultsWatchBackoffEnds
    \/ FaultsRelistOk
    \/ \E status \in Failures : RelistFails(status)
    \/ ClusterShutdown
    \/ RequestStop
    \/ SetStopEvent
    \/ Tick

SpecFaults == InitFaults /\ [][NextFaults]_<< engine_vars, leader_vars >>

\* C24: a 401 or 403 from the initial ConfigMap list, from the watch or
\* from the re-list after a 410 makes run_forever return in that step, with
\* ready cleared, no backoff sleep, no watch stream open, and without a
\* restart or a change of the queue.
C24_DeniedReturnsAtOnce ==
    [][\A status \in {"401", "403"} :
         (InitialListFails(status) \/ WatchFails(status) \/ RelistFails(status)) =>
             /\ phase' = "idle"
             /\ ~ready'
             /\ watch_resource_version' = {}
             /\ UNCHANGED << now, deployments, pending, retry_attempt >>
      ]_<< engine_vars, leader_vars >>

\* run_forever has returned with no stop requested, after it had seeded
\* its cache: the watch or the re-list was denied
C24_Witness ==
    /\ phase = "idle"
    /\ ~_should_stop
    /\ last_hash # EmptyMap
    /\ ~ready

\* C25: no failure of the cluster API makes run_forever end by an exception.
C25_NeverRaises == phase # "crashed"

\* C27: once the stop signal is set run_forever returns with ready cleared
\* and every pending key force-flushed, so nothing is left in pending.
C27_StopFlushesPending ==
    (phase = "idle" /\ _should_stop) => (~ready /\ pending = EmptyMap)

\* C28: when run_forever is entered, last_hash, last_restart, pending and
\* retry_attempt are empty.
C28_RunStartsEmpty ==
    phase = "init" =>
        /\ last_hash = EmptyMap
        /\ last_restart = EmptyMap
        /\ pending = EmptyMap
        /\ retry_attempt = EmptyMap

\* C29: every restart of a Deployment writes a rollout timestamp strictly
\* greater than the one the Deployment carries from its previous restart.
C29_RolloutTimestampsIncrease ==
    \A o \in HandlerOutcomes(ClusterEvents, EventVersions) :
        \A c \in Calls(AfterEvent(o)) : \A p \in c.patches :
            RolloutAnnotationKey \in DOMAIN deployments[p.name] =>
                p.body[RolloutAnnotationKey] > deployments[p.name][RolloutAnnotationKey]

\* C30: a key that stays in pending never gets an earlier deadline: over
\* every step of the engine (a coalesced debounced event, a drain, a
\* re-list, a retry scheduling), pending[K] afterwards is greater than or
\* equal to pending[K] before.  The one step that takes K out of pending
\* and may put it back is left out: the event handler that pops K and
\* restarts at once.
C30_PendingDeadlineNeverEarlier ==
    [][\A k \in (DOMAIN pending) \cap (DOMAIN pending') :
         \/ pending'[k] >= pending[k]
         \/ k \in out'.key /\ out'.ret # {}
      ]_<< engine_vars, leader_vars >>

(***************************************************************************)
(* The supervisor of one process: the leadership callbacks of main, the    *)
(* engine thread they start and stop, and the readiness endpoint           *)
(***************************************************************************)
\* The callbacks are driven by an elector of which nothing is assumed but
\* that it calls them one at a time from its loop: they guard themselves
\* against a start that finds the previous engine thread alive.

\* the process whose supervisor is followed
SupervisedReplicas == {"r1"}

\* a supervisor that takes every end of the engine thread for unexpected
_run_controller_AlwaysUnexpected(r, outcome) ==
    shutdown_event' = [shutdown_event EXCEPT ![r] = TRUE]

\* _run_controller once run_forever has ended, by a return or by an
\* exception: it sets the shutdown event when the exit was unexpected
_run_controller(r, outcome) ==
    LET unexpected_exit == IF outcome = "raised" THEN TRUE
                           ELSE ~controller_stop[r] /\ ~shutdown_event[r]
    IN  shutdown_event' = [shutdown_event EXCEPT ![r] = @ \/ unexpected_exit]

\* the engine's dicts, flags and cursors, which no step of the supervisor
\* touches; ready and phase are left to the engine thread's steps
EngineStateUntouched ==
    UNCHANGED << debounce_seconds, last_hash, last_restart, pending, retry_attempt,
                 deployments, deployment_labels, external_stop, stop_event,
                 resource_version, watch_resource_version, out, coalesced,
                 run_restarts, backoff_seconds, startup_backoff_seconds,
                 seen_version, _active_watcher, watcher, stopped_watchers,
                 request_stop_pc, active_watcher >>

\* the elector hands leadership to the process: it invokes on_started_leading
ElectorStartsLeading(r) ==
    /\ pc[r] = "wait"
    /\ on_started_leading(r)
    /\ leading' = [leading EXCEPT ![r] = TRUE]
    /\ UNCHANGED out_of_turn
    /\ EngineUntouched
    /\ UNCHANGED << now, timing, join_timeout, lease, pc, _is_leader, last_renew_success,
                    wake_at, join_deadline, stale_calls >>

\* the elector takes leadership away: it invokes on_stopped_leading
ElectorStopsLeading(r) ==
    /\ pc[r] = "wait"
    /\ on_stopped_leading(r, "joining", "wait")
    /\ leading' = [leading EXCEPT ![r] = FALSE]
    /\ UNCHANGED out_of_turn
    /\ EngineUntouched
    /\ UNCHANGED << now, timing, join_timeout, lease, _is_leader, last_renew_success,
                    wake_at, shutdown_event, superseded, engine_threads, stale_calls >>

\* elector.run() returns to main
ElectorRunReturns(r) ==
    /\ pc[r] = "wait"
    /\ pc' = [pc EXCEPT ![r] = "main_stop"]
    /\ EngineUntouched
    /\ UNCHANGED << now, timing, join_timeout, lease, _is_leader, last_renew_success,
                    wake_at, join_deadline, shutdown_event, controller_thread,
                    controller_stop, leading, out_of_turn, superseded, leader_ready, engine_threads,
                    stale_calls >>

\* the engine thread enters run_forever
EngineEntersRunForever(r) ==
    /\ controller_thread[r] = "alive"
    /\ phase = "idle"
    /\ phase' = "init"
    /\ EngineStateUntouched
    /\ UNCHANGED << now, ready >>
    /\ UNCHANGED leader_vars
    /\ UNCHANGED stop_vars
    /\ UNCHANGED seen_version
    /\ UNCHANGED backoff_vars

\* the initial list and the drift pass are done: ready is set
EngineSetsReady(r) ==
    /\ controller_thread[r] = "alive"
    /\ phase = "init"
    /\ ~controller_stop[r]
    /\ ready' = TRUE
    /\ phase' = "watch"
    /\ EngineStateUntouched
    /\ UNCHANGED now
    /\ UNCHANGED leader_vars
    /\ UNCHANGED stop_vars
    /\ UNCHANGED seen_version
    /\ UNCHANGED backoff_vars

\* run_forever returns, on the stop signal or on a 401/403: every return
\* clears ready first; _run_controller then ends the thread
EngineReturns(r) ==
    /\ controller_thread[r] = "alive"
    /\ phase \in {"init", "watch"}
    /\ ready' = FALSE
    /\ phase' = "idle"
    /\ _run_controller(r, "returned")
    /\ controller_thread' = [controller_thread EXCEPT ![r] = "dead"]
    /\ engine_threads' = [engine_threads EXCEPT ![r] = @ - 1]
    /\ EngineStateUntouched
    /\ UNCHANGED << now, timing, join_timeout, lease, pc, _is_leader, last_renew_success,
                    wake_at, join_deadline, controller_stop, leading, out_of_turn, superseded,
                    leader_ready, stale_calls >>

\* an exception leaves run_forever from its watch loop (a drain or a
\* re-list that raises other than ApiException): ready is left as it is
EngineRaises(r) ==
    /\ controller_thread[r] = "alive"
    /\ phase = "watch"
    /\ phase' = "crashed"
    /\ _run_controller(r, "raised")
    /\ controller_thread' = [controller_thread EXCEPT ![r] = "dead"]
    /\ engine_threads' = [engine_threads EXCEPT ![r] = @ - 1]
    /\ EngineStateUntouched
    /\ UNCHANGED << now, ready, timing, join_timeout, lease, pc, _is_leader,
                    last_renew_success, wake_at, join_deadline, controller_stop, leading, out_of_turn,
                    superseded, leader_ready, stale_calls >>

\* a second passes; a join that waits gives up when its timeout is reached
SupervisorTick ==
    /\ now < MaxLeaderTime
    /\ \A r \in Replicas :
          pc[r] \in {"joining", "final_joining", "main_joining"} => now < join_deadline[r]
    /\ now' = now + 1
    /\ EngineUntouched
    /\ UNCHANGED leader_vars
    /\ UNCHANGED stop_vars
    /\ UNCHANGED seen_version
    /\ UNCHANGED backoff_vars

\* GET /readyz of the process answers 200 (leader election enabled)
readyz(r) == ready /\ leader_ready[r]

InitSupervisor ==
    /\ now = 0
    /\ timing = [lease_duration_seconds |-> 15, renew_deadline_seconds |-> 10,
                 retry_period_seconds |-> 2]
    /\ join_timeout \in JoinTimeoutChoices
    /\ lease = {}
    /\ pc = [r \in Replicas |-> "main"]
    /\ _is_leader = [r \in Replicas |-> FALSE]
    /\ last_renew_success = [r \in Replicas |-> 0]
    /\ wake_at = [r \in Replicas |-> 0]
    /\ join_deadline = [r \in Replicas |-> 0]
    /\ shutdown_event = [r \in Replicas |-> FALSE]
    /\ controller_thread = [r \in Replicas |-> "none"]
    /\ controller_stop = [r \in Replicas |-> FALSE]
    /\ leading = [r \in Replicas |-> FALSE]
    /\ out_of_turn = [r \in Replicas |-> FALSE]
    /\ superseded = [r \in Replicas |-> FALSE]
    /\ leader_ready = [r \in Replicas |-> FALSE]
    /\ engine_threads = [r \in Replicas |-> 0]
    /\ stale_calls = {}
    /\ debounce_seconds = 0
    /\ last_hash = EmptyMap
    /\ last_restart = EmptyMap
    /\ pending = EmptyMap
    /\ retry_attempt = EmptyMap
    /\ deployments = [d \in DeploymentNames |-> EmptyMap]
    /\ deployment_labels =
         [d \in DeploymentNames |-> [app |-> "helloworld", env |-> "test"]]
    /\ ready = FALSE
    /\ external_stop = FALSE
    /\ stop_event = FALSE
    /\ phase = "idle"
    /\ resource_version = {}
    /\ watch_resource_version = {}
    /\ backoff_seconds = 1
    /\ startup_backoff_seconds = 1
    /\ seen_version = {}
    /\ StopIdle
    /\ out = NoEvent
    /\ coalesced = {}
    /\ run_restarts = {}

NextSupervisor ==
    \/ \E r \in SupervisedReplicas : ElectorRun(r)
    \/ \E r \in SupervisedReplicas : ElectorStartsLeading(r)
    \/ \E r \in SupervisedReplicas : ElectorStopsLeading(r)
    \/ \E r \in SupervisedReplicas : ElectorRunReturns(r)
    \/ \E r \in SupervisedReplicas : JoinReturns(r)
    \/ \E r \in SupervisedReplicas : JoinTimesOut(r)
    \/ \E r \in SupervisedReplicas : MainStops(r)
    \/ \E r \in SupervisedReplicas : ProcessExits(r)
    \/ \E r \in SupervisedReplicas : Signal(r)
    \/ \E r \in SupervisedReplicas : EngineEntersRunForever(r)
    \/ \E r \in SupervisedReplicas : EngineSetsReady(r)
    \/ \E r \in SupervisedReplicas : EngineReturns(r)
    \/ \E r \in SupervisedReplicas : EngineRaises(r)
    \/ SupervisorTick

SpecSupervisor == InitSupervisor /\ [][NextSupervisor]_all_vars

\* C21: at most one engine thread executes run_forever at any time.  An
\* on_started_leading invoked after the shutdown event is set changes
\* nothing; invoked while the previously spawned engine thread is alive it
\* spawns no engine and sets the shutdown event; and after any invocation
\* at most one engine thread runs.
C21_AtMostOneEngineThread ==
    [][\A r \in SupervisedReplicas :
          ElectorStartsLeading(r) =>
              /\ engine_threads'[r] <= 1
              /\ shutdown_event[r] =>
                    UNCHANGED << shutdown_event, controller_thread, controller_stop,
                                 leader_ready, engine_threads >>
              /\ (~shutdown_event[r] /\ controller_thread[r] = "alive") =>
                    /\ engine_threads' = engine_threads
                    /\ UNCHANGED << controller_thread, controller_stop >>
                    /\ shutdown_event'[r]
      ]_all_vars

\* the elector is about to hand leadership over while the engine thread of
\* the last term is alive in its watch loop and no shutdown is under way
C21_Witness ==
    \E r \in SupervisedReplicas :
        /\ pc[r] = "wait"
        /\ controller_thread[r] = "alive"
        /\ engine_threads[r] = 1
        /\ phase = "watch"
        /\ ~shutdown_event[r]
        /\ ENABLED ElectorStartsLeading(r)

\* C22: on_stopped_leading clears leader_ready and signals the engine to
\* stop without touching the shutdown event, and joins the engine thread
\* with the configured timeout: a join that returns because the thread has
\* ended leaves the shutdown event as it was; a join that runs into its
\* timeout with the thread alive sets it.
C22_StoppedLeadingJoins ==
    [][\A r \in SupervisedReplicas :
          /\ (ElectorStopsLeading(r) \/ MainStops(r)) =>
                /\ ~leader_ready'[r]
                /\ controller_stop'[r]
                /\ shutdown_event' = shutdown_event
                /\ controller_thread[r] = "alive" =>
                      /\ join_deadline'[r] = now + join_timeout
                      /\ pc'[r] \in {"joining", "main_joining"}
          /\ JoinReturns(r) =>
                /\ controller_thread[r] = "dead"
                /\ now <= join_deadline[r]
                /\ shutdown_event' = shutdown_event
          /\ JoinTimesOut(r) =>
                /\ controller_thread'[r] = "alive"
                /\ now = join_deadline[r]
                /\ shutdown_event'[r]
          /\ ProcessExits(r) =>
                shutdown_event'[r] = (shutdown_event[r] \/ controller_thread[r] = "alive")
      ]_all_vars

\* the join of on_stopped_leading has run into its timeout: the engine
\* thread is alive with its stop signal set, and the shutdown event is set
C22_Witness ==
    \E r \in SupervisedReplicas :
        /\ pc[r] = "wait"
        /\ controller_thread[r] = "alive"
        /\ controller_stop[r]
        /\ ~leader_ready[r]
        /\ join_deadline[r] = join_timeout
        /\ now = join_deadline[r]
        /\ shutdown_event[r]

C26_ReadyzOnlyWhileEngineRuns ==
    \A r \in SupervisedReplicas :
        (pc[r] # "done" /\ readyz(r)) =>
            /\ controller_thread[r] = "alive"
            /\ phase = "watch"
            /\ leading[r]

\* C37: whenever run_forever returns from its watch loop, on the stop
\* signal or on a 401/403, pending is empty afterwards.
C37_ReturnLeavesNothingPending ==
    [][(phase \in {"watch", "stream"} /\ phase' = "idle") => pending' = EmptyMap
      ]_<< engine_vars, leader_vars >>

\* C31: an event whose type is not ADDED or MODIFIED, whose labels miss a
\* clause of the app selector, whose env label is missing or empty, or
\* whose name is empty leaves the handler with no result, no executor call
\* and the engine state (last_hash, last_restart, pending, retry_attempt,
\* the Deployments) exactly as it was.
C31_FilteredEventChangesNothing ==
    \A o \in HandlerOutcomes(FilteredEvents, EventVersions) :
        /\ o.h.ret = {}
        /\ o.h.st = EngineState

\* a DELETED event for a ConfigMap the engine knows has been handled while
\* a restart for it was waiting in the queue
C31_Witness ==
    /\ phase = "stream"
    /\ out.event_type = "DELETED"
    /\ out.key # {}
    /\ out.key \subseteq DOMAIN last_hash
    /\ out.key \subseteq DOMAIN pending

(***************************************************************************)
(* The watch timeout, on clock readings counted in ticks                   *)
(***************************************************************************)
MaxDeadline == 64

MaxNow == 4

InitTimeout ==
    /\ LeaderIdle
    /\ now = 0
    /\ debounce_seconds = 0
    /\ last_hash = EmptyMap
    /\ last_restart = EmptyMap
    /\ \E S \in SUBSET Keys : pending \in [S -> 0..MaxDeadline]
    /\ retry_attempt = EmptyMap
    /\ deployments = [d \in DeploymentNames |-> EmptyMap]
    /\ deployment_labels =
         [d \in DeploymentNames |-> [app |-> "helloworld", env |-> "test"]]
    /\ ready = TRUE
    /\ external_stop = FALSE
    /\ stop_event = FALSE
    /\ phase = "watch"
    /\ resource_version = {}
    /\ watch_resource_version = {}
    /\ backoff_seconds = 1
    /\ startup_backoff_seconds = 1
    /\ seen_version = {}
    /\ StopIdle
    /\ out = NoEvent
    /\ coalesced = {}
    /\ run_restarts = {}

\* the loop computes the timeout and opens a watch stream with it; out.ret
\* records the timeout
TimeoutWatchOpen ==
    /\ phase = "watch"
    /\ phase' = "stream"
    /\ out' = [NoEvent EXCEPT !.ret = {_next_watch_timeout_seconds(EngineState, now)}]
    /\ Unchanged(EngineState)
    /\ UNCHANGED leader_vars
    /\ UNCHANGED stop_vars
    /\ UNCHANGED seen_version
    /\ UNCHANGED backoff_vars
    /\ UNCHANGED << now, ready, external_stop, stop_event, run_restarts,
                    resource_version, watch_resource_version >>

\* the stream ends
TimeoutWatchEnd ==
    /\ phase = "stream"
    /\ phase' = "watch"
    /\ out' = NoEvent
    /\ Unchanged(EngineState)
    /\ UNCHANGED leader_vars
    /\ UNCHANGED stop_vars
    /\ UNCHANGED seen_version
    /\ UNCHANGED backoff_vars
    /\ UNCHANGED << now, ready, external_stop, stop_event, run_restarts,
                    resource_version, watch_resource_version >>

\* a tick passes between two streams
TimeoutTick ==
    /\ phase = "watch"
    /\ now < MaxNow
    /\ now' = now + 1
    /\ out' = NoEvent
    /\ Unchanged(EngineState)
    /\ UNCHANGED leader_vars
    /\ UNCHANGED stop_vars
    /\ UNCHANGED seen_version
    /\ UNCHANGED backoff_vars
    /\ UNCHANGED << ready, external_stop, stop_event, phase, run_restarts,
                    resource_version, watch_resource_version >>

NextTimeout ==
    \/ TimeoutWatchOpen
    \/ TimeoutWatchEnd
    \/ TimeoutTick

SpecTimeout == InitTimeout /\ [][NextTimeout]_<< engine_vars, leader_vars >>

\* C34: the watch timeout is 30 when nothing is pending; otherwise it is
\* the time to the nearest pending deadline rounded up to whole seconds,
\* held between 1 and 30.  It is always a whole number from 1 to 30, and
\* when the nearest deadline is at most 30 s away it is not shorter than
\* the time that remains to that deadline.  The stream is opened with it.
C34_WatchTimeout ==
    LET timeout == _next_watch_timeout_seconds(EngineState, now)
    IN  /\ timeout \in 1..30
        /\ pending = EmptyMap => timeout = 30
        /\ pending # EmptyMap =>
              LET away == SetMin({ pending[k] : k \in DOMAIN pending }) - now
                  up == CHOOSE n \in 0..(MaxDeadline + 1) :
                            /\ n * TicksPerSecond >= away
                            /\ n = 0 \/ (n - 1) * TicksPerSecond < away
              IN  /\ timeout = Min2(30, Max2(1, up))
                  /\ away <= 30 * TicksPerSecond => timeout * TicksPerSecond >= away
        /\ phase = "stream" => out.ret = {timeout}

\* a stream is open whose timeout is the remaining time, a second and a
\* fraction, rounded up
C34_Witness ==
    /\ phase = "stream"
    /\ pending # EmptyMap
    /\ LET away == SetMin({ pending[k] : k \in DOMAIN pending }) - now
       IN  /\ away > TicksPerSecond
           /\ away % TicksPerSecond # 0
           /\ \E timeout \in out.ret :
                 /\ timeout * TicksPerSecond > away
                 /\ (timeout - 1) * TicksPerSecond < away

\* C38: a burst of changes does not postpone a debounced restart.  A change
\* for key K that the handler defers while K has no pending entry queues K
\* at last_restart[K] + debounce_seconds; a further change deferred while K
\* waits for that deadline leaves pending[K] at that value.
C38_BurstDoesNotPostpone ==
    \A o \in HandlerOutcomes(ClusterEvents, EventVersions) :
        LET k == KeyOf(o.event.object)
        IN  (Remaining(k) > 0 /\ Get(last_hash, k) # {HashOf(o.event.object)}) =>
                /\ o.h.ret = {}
                /\ k \notin DOMAIN pending =>
                      o.h.st.pending[k] = last_restart[k] + debounce_seconds
                /\ (k \in DOMAIN pending
                      /\ pending[k] = last_restart[k] + debounce_seconds) =>
                      o.h.st.pending[k] = pending[k]

\* a second change for a key has just been deferred while the key was
\* waiting, later in the window than the first: the deadline is still the
\* end of the window that the last restart opened
C38_Witness ==
    /\ phase = "stream"
    /\ out.ret = {}
    /\ out.prev_hash # out.hash
    /\ \E k \in out.key :
          /\ k \in coalesced
          /\ k \in DOMAIN last_restart
          /\ now > last_restart[k]
          /\ pending[k] = last_restart[k] + debounce_seconds

\* C39: a restart that the shutdown force-flush of controller A attempted
\* for key K and dropped on failure is taken up at the next engine start:
\* when a fresh controller B lists K's ConfigMap with the data A last saw
\* and a Deployment of K's env carries an older hash annotation for it, or
\* the rollout annotation without one, B's startup drift reconciler invokes
\* the executor for K.
C39_DroppedIntentIsReconciled ==
    (phase = "watch" /\ _should_stop /\ pending # EmptyMap) =>
    \A fpA \in PlansFor(DOMAIN pending) : \A raising \in Raisings :
        LET a == Flush(fpA, raising)
        IN  \A k \in DOMAIN pending :
            (\E i \in CallsFor(a, k) : a.calls[i].result.failed > 0) =>
            \A items \in ClusterLists :
                (/\ k \in ListedKeys(items)
                 /\ {HashOf(ListedAs(items, k))} = Get(a.last_hash, k)
                 /\ \E d \in DeploymentNames :
                    /\ deployment_labels[d] = [app |-> "helloworld", env |-> k[1]]
                    /\ LET observed == Get(a.deployments[d], _config_hash_annotation_key(k[2]))
                       IN  \/ observed # {} /\ observed # Get(a.last_hash, k)
                           \/ observed = {} /\ RolloutAnnotationKey \in DOMAIN a.deployments[d]) =>
                \A fp \in PlansFor(ListedKeys(items)) :
                \A drift_fail \in SUBSET ListedKeys(items) :
                    LET b == _reconcile_startup_drift(
                                 _sync_cache_from_list(FreshController(a.deployments),
                                                       items, FALSE, now, fp),
                                 items, now, fp, drift_fail)
                    IN  DriftCallsFor(b, k) # {}

\* C35: an election cycle of replica r in which the API calls fail counts as
\* not acquired and nothing more: the run loop goes on to its wait and the
\* next cycle, the Lease is as it was, and unless r is a leader whose last
\* successful renew is a renew deadline or more ago, _is_leader is unchanged
\* and neither callback runs (no thread is started, no stop is signalled).
C35_FailedCycleIsNotAcquired ==
    [][\A r \in Replicas :
        ElectorCycleWith(r, FALSE) =>
            /\ lease' = lease
            /\ wake_at'[r] = now + timing.retry_period_seconds
            /\ pc'[r] \in {"wait", "joining"}
            /\ (~_is_leader[r] \/ now - last_renew_success[r] < timing.renew_deadline_seconds) =>
                   /\ pc'[r] = "wait"
                   /\ UNCHANGED << _is_leader, leading, out_of_turn, last_renew_success, shutdown_event,
                                   controller_thread, controller_stop, leader_ready,
                                   engine_threads, join_deadline >>]_all_vars

\* a leader that holds the Lease has just had a cycle fail within its renew deadline
C35_Witness ==
    \E r \in Replicas :
        /\ _is_leader[r] /\ pc[r] = "wait"
        /\ lease # {} /\ \A l \in lease : l.holder_identity = {r} /\ l.renew_time < now
        /\ last_renew_success[r] < now
        /\ wake_at[r] = now + timing.retry_period_seconds

\* C36: within elector.run() of a replica the two callbacks alternate,
\* on_started_leading first (no callback is ever invoked out of turn);
\* _is_leader is true exactly from an on_started_leading to the next
\* on_stopped_leading; and once run() has returned on the shutdown event,
\* _is_leader is false and the last callback invoked, if any, was
\* on_stopped_leading.
C36_CallbacksAlternate ==
    \A r \in Replicas :
        /\ ~out_of_turn[r]
        /\ _is_leader[r] = leading[r]
        /\ pc[r] \in {"main_stop", "main_joining", "done"} =>
               /\ shutdown_event[r]
               /\ ~_is_leader[r]
        /\ pc[r] = "main_stop" => ~leading[r]

\* run() of a replica that led has returned: on_stopped_leading has signalled
\* its engine and no callback is outstanding
C36_Witness ==
    \E r \in Replicas :
        /\ pc[r] = "main_stop"
        /\ controller_stop[r]
        /\ controller_thread[r] # "none"
        /\ ~leading[r]

(***************************************************************************)
(* The two backoff bases of run_forever against a cluster API that fails:  *)
(* the steps of SpecFaults without the watch events, with the doubling     *)
(* that follows each sleep.                                                *)
(***************************************************************************)
NextBackoff ==
    \/ ClusterRunForever
    \/ FaultsInitialListOk
    \/ \E status \in Failures : InitialListFails(status)
    \/ InitialBackoffEnds
    \/ FaultsWatchOpen
    \/ FaultsWatchEnd
    \/ \E status \in Failures : WatchFails(status)
    \/ WatchBackoffEnds
    \/ FaultsRelistOk
    \/ \E status \in Failures : RelistFails(status)

SpecBackoff == InitFaults /\ [][NextBackoff]_<< engine_vars, leader_vars >>

\* C33: the base of the watch loop's error backoff is 1 when the watch loop
\* is entered, goes one place up the sequence 1, 2, 4, 8, 16, 30, 30, ...
\* with the sleep of each watch error that is neither a 410 nor a 401/403,
\* is 1 again after every watch stream that ends without raising, and
\* changes at no other step; the base of the initial list's backoff is 1
\* when run_forever starts and goes up the same sequence with each failed
\* initial list.
C33_BackoffDoublesToCap ==
    [][LET bases == << 1, 2, 4, 8, 16, 30 >>
           Up(before, after) ==
               \E i \in 1..6 : before = bases[i] /\ after = bases[IF i < 6 THEN i + 1 ELSE 6]
       IN  /\ (phase = "watch_backoff" /\ phase' = "watch") =>
                  Up(backoff_seconds, backoff_seconds')
           /\ (phase = "init_backoff" /\ phase' = "init") =>
                  Up(startup_backoff_seconds, startup_backoff_seconds')
           /\ (phase = "init" /\ phase' = "watch") => backoff_seconds' = 1
           /\ (phase = "idle" /\ phase' = "init") => startup_backoff_seconds' = 1
           /\ FaultsWatchEnd => backoff_seconds' = 1
           /\ backoff_seconds' # backoff_seconds =>
                  \/ phase \in {"watch_backoff", "init"}
                  \/ FaultsWatchEnd
           /\ startup_backoff_seconds' # startup_backoff_seconds =>
                  phase \in {"init_backoff", "idle"}
      ]_<< engine_vars, leader_vars >>

\* a sixth watch error in a row sleeps on the capped base, in a run whose
\* initial list had failed five times and more
C33_Witness ==
    /\ phase = "watch_backoff"
    /\ backoff_seconds = 30
    /\ startup_backoff_seconds = 30

(***************************************************************************)
(* The resource version run_forever watches from, against a cluster API    *)
(* that fails: the steps of SpecFaults, with events that carry a resource  *)
(* version of their own or none.                                           *)
(***************************************************************************)
\* metadata.resource_version of the objects of the events: none, or a later one
ResumeEventVersions == { {}, {"2"}, {"3"} }

\* metadata.resource_version of the re-list's response
ResumeRelistVersions == { {"4"} }

\* the events of the stream: a change of the data of "a", one that is filtered out
ResumeEvents ==
    { e \in ClusterEvents \cup FilteredEvents :
        e.type = "MODIFIED" /\ e.object.name = "a" /\ e.object.data \in ListDatas }

ResumeWatchEvent == AttemptsBelowBound /\ WatchEventIn(ResumeEvents, ResumeEventVersions)

ResumeRelistOk == WatchGoneRelistOkIn(FaultLists, ResumeRelistVersions)

NextResume ==
    \/ ClusterRunForever
    \/ FaultsInitialListOk
    \/ \E status \in Failures : InitialListFails(status)
    \/ FaultsInitialBackoffEnds
    \/ FaultsWatchOpen
    \/ ResumeWatchEvent
    \/ FaultsWatchEnd
    \/ \E status \in Failures : WatchFails(status)
    \/ FaultsWatchBackoffEnds
    \/ ResumeRelistOk
    \/ \E status \in Failures : RelistFails(status)

SpecResume == InitFaults /\ [][NextResume]_<< engine_vars, leader_vars >>

\* C32 as stated: every watch stream is opened from the last non-empty
\* resource version that a list or an event of this run carried.
C32_Original ==
    \A st \in WatchOpenOutcomes : st.watch_resource_version = seen_version

\* C32, amended: ready is set, and the watch loop entered, only by the step
\* in which an initial list succeeds, which seeds last_hash with the hash of
\* every listed key, runs the drift reconciler on the list and takes the
\* list's resource version; a watch stream is opened only in the watch loop
\* and from the resource version the engine holds, which is the last
\* non-empty one a list or an event of this run carried, or none; and it
\* becomes none inside the watch loop only by a 410 whose re-list fails
\* with an ApiException that is not a 401/403.
C32_WatchResumesFromHeldVersion ==
    [][/\ (ready' /\ ~ready) \/ (phase' = "watch" /\ phase \notin {"watch", "stream", "watch_backoff"}) =>
              /\ phase = "init" /\ phase' = "watch" /\ ready'
              /\ \E items \in FaultLists :
                 \E fp \in PlansFor(ListedKeys(items)) :
                 \E drift_fail \in SUBSET ListedKeys(items) :
                     LET seeded == _sync_cache_from_list(EngineState, items, FALSE, now, fp)
                         st == _reconcile_startup_drift(seeded, items, now, fp, drift_fail)
                     IN  /\ \A k \in ListedKeys(items) :
                                Get(seeded.last_hash, k) = {HashOf(ListedAs(items, k))}
                         /\ last_hash' = st.last_hash
                         /\ deployments' = st.deployments
                         /\ pending' = st.pending
              /\ resource_version' \in InitialVersions
              /\ seen_version' = resource_version'
       /\ (phase' = "stream" /\ phase # "stream") =>
              /\ phase = "watch" /\ ready
              /\ watch_resource_version' = resource_version
              /\ resource_version' = resource_version
       /\ phase' \in {"watch", "stream", "watch_backoff"} =>
              /\ resource_version' \in {seen_version', {}}
              /\ (resource_version' = {} /\ resource_version # {}) =>
                     \E status \in ApiStatuses : ~AuthDenied(status) /\ RelistFails(status)
      ]_<< engine_vars, leader_vars >>

\* a watch stream is open that was started from the resource version an
\* event of an earlier stream carried, and has handled a change event
C32_Witness ==
    /\ phase = "stream"
    /\ watch_resource_version = {"3"}
    /\ seen_version = {"3"}
    /\ out.event_type = "MODIFIED"
    /\ out.key # {}

(***************************************************************************)
(* request_stop() against the watch loop, statement by statement: the      *)
(* engine thread checks the stop signal and drains, registers a new Watch  *)
(* object under the lock, opens its stream, and unregisters it when the    *)
(* stream has ended; the calling thread sets _external_stop, reads         *)
(* _active_watcher under the lock, and calls stop() on what it read.       *)
(***************************************************************************)
\* how many Watch objects one run makes
MaxWatchers == 3

\* while not self._should_stop(stop): self._drain_pending_restarts(...)
StopLoopCheck ==
    /\ phase = "watch"
    /\ ~_should_stop
    /\ watcher < MaxWatchers
    /\ \E fp \in PlansFor(DOMAIN pending) : Commit(_drain_pending_restarts(EngineState, now, fp))
    /\ phase' = "register"
    /\ out' = NoEvent
    /\ UNCHANGED leader_vars
    /\ UNCHANGED stop_vars
    /\ UNCHANGED seen_version
    /\ UNCHANGED backoff_vars
    /\ UNCHANGED << now, ready, external_stop, stop_event >>

\* watcher = watch.Watch(); with self._watcher_lock: self._active_watcher = watcher
StopRegisterWatcher ==
    /\ phase = "register"
    /\ watcher' = watcher + 1
    /\ _active_watcher' = {watcher + 1}
    /\ phase' = "opening"
    /\ out' = NoEvent
    /\ UNCHANGED leader_vars
    /\ UNCHANGED << stopped_watchers, request_stop_pc, active_watcher >>
    /\ UNCHANGED seen_version
    /\ UNCHANGED backoff_vars
    /\ Unchanged(EngineState)
    /\ UNCHANGED << now, ready, run_restarts, resource_version, watch_resource_version,
                    external_stop, stop_event >>

\* watcher.stream(..., resource_version=resource_version, timeout_seconds=...)
StopStreamOpens ==
    /\ phase = "opening"
    /\ watch_resource_version' = resource_version
    /\ phase' = "stream"
    /\ out' = NoEvent
    /\ UNCHANGED leader_vars
    /\ UNCHANGED stop_vars
    /\ UNCHANGED seen_version
    /\ UNCHANGED backoff_vars
    /\ Unchanged(EngineState)
    /\ UNCHANGED << now, ready, run_restarts, resource_version, external_stop, stop_event >>

\* an event of the stream, handled when the stop signal is not set
StopWatchEvent == WatchEventIn(ClusterEvents, EventVersions)

\* the stream has ended (stop() was called on it, its timeout has passed, or
\* the stop signal was seen at an event): drain, and in the finally clause
\* unregister the Watch object
StopStreamEnds ==
    /\ \E st \in WatchEndOutcomes : Commit(st)
    /\ _active_watcher' = IF _active_watcher = {watcher} THEN {} ELSE _active_watcher
    /\ phase' = "watch"
    /\ out' = NoEvent
    /\ backoff_seconds' = 1
    /\ UNCHANGED leader_vars
    /\ UNCHANGED << watcher, stopped_watchers, request_stop_pc, active_watcher >>
    /\ UNCHANGED << seen_version, startup_backoff_seconds >>
    /\ UNCHANGED << now, ready, external_stop, stop_event >>

\* request_stop(), first statement: self._external_stop.set()
RequestStopSetsFlag ==
    /\ phase \notin {"idle", "init"}
    /\ request_stop_pc = "idle"
    /\ external_stop' = TRUE
    /\ request_stop_pc' = "flag_set"
    /\ out' = NoEvent
    /\ UNCHANGED leader_vars
    /\ UNCHANGED << _active_watcher, watcher, stopped_watchers, active_watcher >>
    /\ UNCHANGED seen_version
    /\ UNCHANGED backoff_vars
    /\ Unchanged(EngineState)
    /\ UNCHANGED << now, ready, run_restarts, resource_version, watch_resource_version,
                    stop_event, phase >>

\* with self._watcher_lock: active_watcher = self._active_watcher
RequestStopReadsWatcher ==
    /\ request_stop_pc = "flag_set"
    /\ active_watcher' = _active_watcher
    /\ request_stop_pc' = "read"
    /\ out' = NoEvent
    /\ UNCHANGED leader_vars
    /\ UNCHANGED << _active_watcher, watcher, stopped_watchers >>
    /\ UNCHANGED seen_version
    /\ UNCHANGED backoff_vars
    /\ Unchanged(EngineState)
    /\ UNCHANGED << now, ready, run_restarts, resource_version, watch_resource_version,
                    external_stop, stop_event, phase >>

\* if active_watcher is not None: active_watcher.stop(); request_stop returns
RequestStopStopsWatcher ==
    /\ request_stop_pc = "read"
    /\ stopped_watchers' = stopped_watchers \cup active_watcher
    /\ request_stop_pc' = "returned"
    /\ out' = NoEvent
    /\ UNCHANGED leader_vars
    /\ UNCHANGED << _active_watcher, watcher, active_watcher >>
    /\ UNCHANGED seen_version
    /\ UNCHANGED backoff_vars
    /\ Unchanged(EngineState)
    /\ UNCHANGED << now, ready, run_restarts, resource_version, watch_resource_version,
                    external_stop, stop_event, phase >>

NextStop ==
    \/ ClusterRunForever
    \/ ClusterInitialListOk
    \/ StopLoopCheck
    \/ StopRegisterWatcher
    \/ StopStreamOpens
    \/ StopWatchEvent
    \/ StopStreamEnds
    \/ ClusterShutdown
    \/ RequestStopSetsFlag
    \/ RequestStopReadsWatcher
    \/ RequestStopStopsWatcher

SpecStop == InitCluster /\ [][NextStop]_<< engine_vars, leader_vars >>

\* C40: once request_stop() has returned, a watch stream that the engine
\* thread has open or is opening has had stop() called on its Watch object.
C40_RequestStopStopsTheWatch ==
    (request_stop_pc = "returned" /\ phase \in {"opening", "stream"}) =>
        watcher \in stopped_watchers

====
